---- MODULE Spec2Model ----
(***************************************************************************)
(* A model of the QIIME 2 action-invocation engine: qiime2/sdk/action.py   *)
(* (Action._bind, Method, Visualizer, Pipeline), qiime2/sdk/context/       *)
(* (Context, ParallelContext) and the Cache pools they register into.      *)
(***************************************************************************)
EXTENDS Integers, Sequences, FiniteSets, TLC

\* ------------------------------------------------------------------ bounds
MaxOut == 2        \* largest declared output count of a Method
MaxBodyOps == 2    \* calls the Pipeline computations make through their scopes
MaxProcs == MaxBodyOps + 1      \* the root caller's thread plus the executor's task threads
MaxInv == MaxBodyOps + 1        \* invocations (scopes) made in one behaviour

\* ------------------------------------------------------------- the registry
\* An action is its kind and its declared outputs: "T" a single typed
\* result, "C" a Collection of them, "V" the visualization.
MethodActions == {[kind |-> "method", outs |-> [i \in 1..n |-> "T"]] : n \in 1..MaxOut}
VisualizerAction == [kind |-> "visualizer", outs |-> <<"V">>]
PipelineActions == {[kind |-> "pipeline", outs |-> o] : o \in {<<"T">>, <<"T", "C">>}}
Actions == MethodActions \cup {VisualizerAction} \cup PipelineActions
\* The actions the Pipeline computations of the model call through their scope.
NestedActions ==
    {[kind |-> "method", outs |-> <<"T">>], VisualizerAction,
     [kind |-> "pipeline", outs |-> <<"T">>]}

\* ------------------------------------------------------------------ values
\* k: "real" a Result, "proxy" a deferred handle (u its future, s its
\* selector), "coll" a collection of e, "none" None, "junk" any other object.
\* ty: the semantic type; h: which object it is ("own" a fresh object,
\* "pool" the handle process_pool.save returned, "named" loaded from the
\* named pool).
Val(k, u, s, ty, h, e) == [k |-> k, u |-> u, s |-> s, ty |-> ty, h |-> h, e |-> e]
\* A Result's uuid is <<the invocation that made it, its rank there>>;
\* <<0, 0>> is a Result the caller brought along.
NoId == <<0, 0>>
None == Val("none", NoId, 0, "", "", <<>>)
Junk == Val("junk", NoId, 0, "", "", <<>>)
Empty == Val("empty", NoId, 0, "", "", <<>>)   \* a falsy object that is not None: "", [], 0
Unset == Val("unset", NoId, 0, "", "", <<>>)   \* nothing returned yet
Real(u, ty, h) == Val("real", u, 0, ty, h, <<>>)
Proxy(f, s, ty) == Val("proxy", <<f, s>>, s, ty, "", <<>>)
Coll(e) == Val("coll", NoId, 0, "", "", e)
Future(v) == v.u[1]

Range(s) == {s[i] : i \in 1..Len(s)}

VARIABLES
    cache,            \* the Cache: lock, process_pool, named_pool
    PARALLEL_CONFIG,  \* the loaded parallel routing configuration
    ctxs,             \* every Context constructed, by id
    procs,            \* threads: the root caller and the executor's tasks
    invs,             \* one record per invocation: what it did and how it ended
    tempdirs,         \* the Visualizer working directories that exist
    alias,            \* Pipeline aliasing of one collection output, run on its own
    fingerprint,      \* two cache-probe fingerprints, built on their own
    probe,            \* one cache probe (_check_cache, _load_cache), run on its own
    scopes,           \* Context construction and get_action, run on their own
    asynchronous,     \* the asynchronous entry point, run on its own
    archiver,         \* Archiver.CURRENT_FORMAT_VERSION under artifact_version
    note,             \* the construction of one Note
    argtree           \* the arguments of one parallel dispatch, mapped and unmapped

vars == <<cache, PARALLEL_CONFIG, ctxs, procs, invs, tempdirs, alias, fingerprint, probe,
          scopes, asynchronous, archiver, note, argtree>>
engine == <<cache, PARALLEL_CONFIG, ctxs, procs, invs, tempdirs>>
\* The parts of the engine that are also run on their own.
functions == <<alias, fingerprint, probe, scopes, asynchronous, archiver, note, argtree>>
\* The functions of the repository that are only run on their own.
others == <<archiver, note, argtree>>
Off == [pc |-> "off"]

IdleProc == [status |-> "unused", stack |-> <<>>, deps |-> {}, results |-> <<>>,
             error |-> "", inv |-> 0]

Init ==
    /\ \E named \in BOOLEAN :
         cache = [lock |-> 0, process_pool |-> {}, named_pool |-> {},
                  named |-> named, indexBuilds |-> 0]
    /\ \E loaded \in BOOLEAN : PARALLEL_CONFIG = [loaded |-> loaded]
    /\ ctxs = <<>>
    /\ procs = [p \in 1..MaxProcs |-> IdleProc]
    /\ invs = <<>>
    /\ tempdirs = {}
    /\ alias = Off /\ fingerprint = Off /\ probe = Off
    /\ scopes = Off /\ asynchronous = Off
    /\ archiver = Off /\ note = Off /\ argtree = Off


\* ----------------------------------------------------------------- helpers
Frame(inv, act, ctx, pc, mode, args) ==
    [inv |-> inv, act |-> act, ctx |-> ctx, pc |-> pc, mode |-> mode,
     args |-> args, ret |-> <<>>, outs |-> <<>>, i |-> 1, held |-> <<>>,
     j |-> 0, ops |-> 0, made |-> 0, ref |-> None, orig |-> None, dst |-> "", rpc |-> ""]

Inv(act, entry, parent) ==
    [act |-> act, entry |-> entry, parent |-> parent, ctx |-> 0,
     events |-> <<>>, outcome |-> "running", results |-> <<>>,
     nret |-> -1, retval |-> Unset, registered |-> {}, errval |-> None,
     deferred |-> FALSE, deps |-> {}]

Top(p) == procs[p].stack[Len(procs[p].stack)]
Running(p) == procs[p].status = "running" /\ procs[p].stack # <<>>
At(p, pc) == Running(p) /\ Top(p).pc = pc
SetTop(p, f) == [procs EXCEPT ![p].stack[Len(procs[p].stack)] = f]
\* Calls made so far by the computations on the thread's stack.
OpsMade(p) ==
    LET F[i \in 0..Len(procs[p].stack)] ==
            IF i = 0 THEN 0 ELSE F[i - 1] + procs[p].stack[i].ops
    IN  F[Len(procs[p].stack)]
StackInvs(p) == {procs[p].stack[i].inv : i \in 1..Len(procs[p].stack)}

\* An event appended to an invocation's record, in program order.
Ev(iv, inv, e) == [iv EXCEPT ![inv].events = Append(@, e)]
Happened(inv, e) == e \in Range(invs[inv].events)

\* An exception leaves the frame that raised it and every enclosing frame of
\* the thread: each of those invocations ends with the error, and each `with
\* TemporaryDirectory` block on the way removes its directory.
dirs_left_behind(dirs, gone) == dirs

\* tempfile.TemporaryDirectory.__exit__: the `with` block of every Visualizer
\* executor the control leaves removes its directory.
cleanup(dirs, gone) == dirs \ gone

Raise(p, err, iv) ==
    /\ invs' = [n \in DOMAIN iv |->
                  IF n \in StackInvs(p) THEN [iv[n] EXCEPT !.outcome = err] ELSE iv[n]]
    /\ procs' = [procs EXCEPT ![p].stack = <<>>, ![p].status = "failed",
                              ![p].error = err]
    /\ tempdirs' = cleanup(tempdirs, StackInvs(p))

\* Results is handed to the caller: the enclosing Pipeline computation, or
\* whoever waits on the thread.
Return(p, outs, iv) ==
    LET f == Top(p)
        n == Len(procs[p].stack)
    IN  /\ invs' = [iv EXCEPT ![f.inv].outcome = "results", ![f.inv].results = outs]
        /\ IF n = 1
             THEN procs' = [procs EXCEPT ![p].stack = <<>>, ![p].status = "done",
                                         ![p].results = outs]
             ELSE procs' = [procs EXCEPT ![p].stack =
                    [SubSeq(@, 1, n - 1) EXCEPT ![n - 1].held = @ \o outs,
                                                ![n - 1].ops = @ + f.ops,
                                                ![n - 1].pc = "p_body"]]

\* Context.__init__ for a parentless scope: get_cache(), then under the lock
\* the named pool's index is (re)built.
NewRootCtx(variant, act) ==
    /\ cache.lock = 0
    /\ cache' = [cache EXCEPT !.indexBuilds =
                    IF cache.named THEN @ + 1 ELSE @]
    /\ ctxs' = Append(ctxs, [variant |-> variant, act |-> act, parent |-> 0,
                             loaded |-> PARALLEL_CONFIG.loaded])

\* bound_callable after the executor: len(outputs) against
\* len(self.signature.outputs), then Results(keys, outputs).
Finish(p, f, iv) ==
    IF Len(f.outs) # Len(f.act.outs)
      THEN Raise(p, "ValueError:count", iv)
      ELSE Return(p, f.outs, iv) /\ tempdirs' = cleanup(tempdirs, {f.inv})

ArgsOk(args) == \A i \in 1..Len(args) : args[i].ty = "T"
RootArgs == {<<Real(NoId, "T", "own")>>, <<Real(NoId, "X", "own")>>}

\* --------------------------------------------------------------- entry points
\* Action.__call__ (Action._callable_action_wrapper) and Action.parallel
\* (Action._get_parsl_wrapper) called by an external caller.
RootCall(a, entry, args) ==
    /\ procs[1].status = "unused"
    /\ Len(invs) < MaxInv
    /\ invs' = Append(invs, Inv(a, entry, 0))
    /\ procs' = [procs EXCEPT ![1] =
          [IdleProc EXCEPT !.status = "running", !.inv = Len(invs) + 1,
             !.stack = <<Frame(Len(invs) + 1, a, 0,
                               IF entry = "parallel" THEN "parsl_wrapper" ELSE "bind",
                               IF entry = "parallel" THEN "parsl" ELSE "synchronous",
                               args)>>]]
    /\ UNCHANGED <<cache, PARALLEL_CONFIG, ctxs, tempdirs>>
    /\ UNCHANGED functions

\* Action._bind.bound_callable up to the executor: the scope from the
\* factory, provenance, then the Signature's type management.
ExecutorPc(a) ==
    CASE a.kind = "method" -> "m_call"
      [] a.kind = "visualizer" -> "v_enter"
      [] a.kind = "pipeline" -> "p_body"

Bind(p) ==
    /\ At(p, "bind")
    /\ LET f == Top(p)
           c == IF f.ctx = 0 THEN Len(ctxs) + 1 ELSE f.ctx
           iv == Ev([invs EXCEPT ![f.inv].ctx = c], f.inv, "ctx")
       IN  /\ IF f.ctx = 0
                THEN NewRootCtx("base", f.act)
                ELSE UNCHANGED <<cache, ctxs>>
           /\ IF ArgsOk(f.args)
                THEN /\ procs' = SetTop(p, [f EXCEPT !.ctx = c, !.pc = ExecutorPc(f.act)])
                     /\ invs' = Ev(iv, f.inv, "types")
                     /\ UNCHANGED tempdirs
                ELSE Raise(p, "TypeError:input", iv)
    /\ UNCHANGED <<PARALLEL_CONFIG>>

    /\ UNCHANGED functions

\* ------------------------------------------------------------ add_reference
\* cache.process_pool.save(ref) and cache.named_pool.save(new_ref): the pool
\* gains the value's uuid and keeps what it held.
\* (process_pool_replace: a save that drops what the pool held;
\* named_pool_skip: a save into the named pool that does nothing)
process_pool_replace(pool, ref) == {ref.u}
process_pool_save(pool, ref) == pool \cup {ref.u}
named_pool_skip(pool, ref) == pool
named_pool_save(pool, ref) == pool \cup {ref.u}

value_passed_in(ref) == ref

\* new_ref = self.cache.process_pool.save(ref): the pool's own handle on the
\* value it saved.
new_ref(ref) == Real(ref.u, ref.ty, "pool")

\* Context.add_reference, first half: the lock is taken and the value saved
\* into the process pool, which hands back its own handle.
AddRefSave(p) ==
    /\ At(p, "ref_save")
    /\ cache.lock = 0
    /\ LET f == Top(p)
       IN  /\ cache' = [cache EXCEPT !.lock = p,
                                     !.process_pool = process_pool_save(@, f.ref)]
           /\ procs' = SetTop(p, [f EXCEPT !.orig = f.ref,
                                           !.ref = new_ref(f.ref),
                                           !.pc = "ref_named"])
    /\ UNCHANGED <<PARALLEL_CONFIG, ctxs, invs, tempdirs>>
    /\ UNCHANGED functions

\* Where the caller of add_reference puts what it got back.
Place(f) ==
    CASE f.dst = "outs" -> [f EXCEPT !.outs = Append(@, f.ref)]
      [] f.dst = "coll" ->
           [f EXCEPT !.outs[Len(f.outs)] = Coll(Append(f.outs[Len(f.outs)].e, f.ref))]
      [] f.dst = "held_orig" -> [f EXCEPT !.held = Append(@, f.orig)]

\* Context.add_reference, second half: the handle is mirrored into the named
\* pool when there is one, the lock is released and the handle returned.
AddRefNamed(p) ==
    /\ At(p, "ref_named")
    /\ LET f == Top(p)
       IN  /\ cache' = [cache EXCEPT !.lock = 0,
                          !.named_pool = IF cache.named THEN named_pool_save(@, f.ref) ELSE @]
           /\ procs' = SetTop(p, [Place(f) EXCEPT !.pc = f.rpc, !.ref = None,
                                                  !.orig = None, !.dst = ""])
           /\ invs' = Ev([invs EXCEPT ![f.inv].registered = @ \cup {f.ref.u}],
                         f.inv, "registered")
    /\ UNCHANGED <<PARALLEL_CONFIG, ctxs, tempdirs>>
    /\ UNCHANGED functions

\* ------------------------------------------------------------------ Method
\* What a computation can hand back: one object, or a tuple of objects. ok
\* says whether the Signature can coerce the view into its declared type.
Obj(ok) == [tag |-> "obj", ok |-> ok]
Tup(items) == [tag |-> "tuple", items |-> items]
SeqsUpTo(S, n) == UNION {[1..k -> S] : k \in 0..n}
\* Tuples of up to one more view than declared; the views behind the first
\* one that cannot be coerced are never looked at, so at most one is bad.
Views(k) == {[i \in 1..k |-> Obj(i # b)] : b \in 0..k}
MethodReturns(n) ==
    {Obj(TRUE), Obj(FALSE)} \cup {Tup(s) : s \in UNION {Views(k) : k \in 0..(n + 1)}}
tuplize(x) == IF "items" \in DOMAIN x THEN x.items ELSE <<x>>

\* Method._callable_executor_: the output-view count against the declared
\* output types.
\* (the same executor with the comparison left out)
MethodCountUnchecked(views, output_types) == FALSE
MethodCountMismatch(views, output_types) == Len(views) # Len(output_types)

\* Method._callable_executor_, the call and the count check.
MCall(p) ==
    /\ At(p, "m_call")
    /\ LET f == Top(p)
       IN  \/ \E r \in MethodReturns(Len(f.act.outs)) :
                LET views == tuplize(r)
                    iv == Ev([invs EXCEPT ![f.inv].nret = Len(views)], f.inv, "called")
                IN  IF MethodCountMismatch(views, f.act.outs)
                      THEN Raise(p, "TypeError:count", iv)
                      ELSE /\ procs' = SetTop(p, [f EXCEPT !.ret = views, !.i = 1,
                                                           !.pc = "m_coerce"])
                           /\ invs' = iv
                           /\ UNCHANGED tempdirs
           \/ Raise(p, "raised", Ev(invs, f.inv, "called"))
    /\ UNCHANGED <<cache, PARALLEL_CONFIG, ctxs>>
    /\ UNCHANGED functions

\* Signature.coerce_given_outputs: zip(output_views, output_types), each view
\* made an artifact and registered with the scope.
MCoerce(p) ==
    /\ At(p, "m_coerce")
    /\ LET f == Top(p)
           n == IF Len(f.ret) < Len(f.act.outs) THEN Len(f.ret) ELSE Len(f.act.outs)
       IN  IF f.i > n
             THEN Finish(p, f, invs)
             ELSE IF ~f.ret[f.i].ok
                    THEN Raise(p, "TypeError:view", invs)
                    ELSE /\ procs' = SetTop(p, [f EXCEPT
                                !.ref = Real(<<f.inv, f.made + 1>>, "T", "own"),
                                !.made = f.made + 1,
                                !.i = f.i + 1, !.dst = "outs",
                                !.pc = "ref_save", !.rpc = "m_coerce"])
                         /\ UNCHANGED <<invs, tempdirs>>
    /\ UNCHANGED <<cache, PARALLEL_CONFIG, ctxs>>
    /\ UNCHANGED functions

\* -------------------------------------------------------------- Visualizer
VizReturns == {None, Empty, Junk}

\* Visualizer._callable_executor_: `ret_val is not None`.
\* (VizReturnIgnored: the same executor never looking at ret_val)
VizReturnIgnored(ret_val) == FALSE
VizReturnRejected(ret_val) == ret_val # None

\* with tempfile.TemporaryDirectory(...) as temp_dir
VEnter(p) ==
    /\ At(p, "v_enter")
    /\ LET f == Top(p)
       IN  /\ tempdirs' = tempdirs \cup {f.inv}
           /\ procs' = SetTop(p, [f EXCEPT !.pc = "v_call"])
           /\ invs' = Ev(invs, f.inv, "tempdir")
    /\ UNCHANGED <<cache, PARALLEL_CONFIG, ctxs>>
    /\ UNCHANGED functions

\* The computation runs in the directory; anything but None is refused.
VCall(p) ==
    /\ At(p, "v_call")
    /\ LET f == Top(p)
       IN  \/ \E ret_val \in VizReturns :
                LET iv == [Ev(invs, f.inv, "called") EXCEPT ![f.inv].retval = ret_val]
                IN  IF VizReturnRejected(ret_val)
                      THEN Raise(p, "TypeError:viz_return",
                                 [iv EXCEPT ![f.inv].errval = ret_val])
                      ELSE /\ procs' = SetTop(p, [f EXCEPT !.pc = "v_build"])
                           /\ invs' = iv
                           /\ UNCHANGED tempdirs
           \/ Raise(p, "raised", Ev(invs, f.inv, "called"))
    /\ UNCHANGED <<cache, PARALLEL_CONFIG, ctxs>>
    /\ UNCHANGED functions

\* Visualization._from_data_dir(temp_dir, provenance), then add_reference.
VBuild(p) ==
    /\ At(p, "v_build")
    /\ LET f == Top(p)
       IN  /\ f.inv \in tempdirs
           /\ procs' = SetTop(p, [f EXCEPT
                                !.ref = Real(<<f.inv, f.made + 1>>, "V", "own"),
                                !.made = f.made + 1, !.dst = "outs",
                                           !.pc = "ref_save", !.rpc = "v_exit"])
           /\ invs' = Ev(invs, f.inv, "built")
    /\ UNCHANGED <<cache, PARALLEL_CONFIG, ctxs, tempdirs>>
    /\ UNCHANGED functions

\* return (viz, ) leaves the with block, the directory is removed, and
\* bound_callable wraps the output.
VExit(p) ==
    /\ At(p, "v_exit")
    /\ Finish(p, Top(p), Ev(invs, Top(p).inv, "rmdir"))
    /\ UNCHANGED <<cache, PARALLEL_CONFIG, ctxs>>
    /\ UNCHANGED functions

\* ---------------------------------------------------------- parallel entry
\* Action._get_parsl_wrapper.parsl_wrapper: only a Pipeline gets a
\* ParallelContext; its root scope is constructed like any parentless one.
\* (AnyKindAllowed: the wrapper without its isinstance test)
AnyKindAllowed(a) == TRUE
ParallelAllowed(a) == a.kind = "pipeline"

ParslWrapper(p) ==
    /\ At(p, "parsl_wrapper")
    /\ LET f == Top(p)
       IN  IF ~ParallelAllowed(f.act)
             THEN /\ Raise(p, "ValueError:usage", invs)
                  /\ UNCHANGED <<cache, ctxs>>
             ELSE /\ NewRootCtx("parallel", f.act)
                  /\ procs' = SetTop(p, [f EXCEPT !.ctx = Len(ctxs) + 1,
                                                  !.pc = "pdispatch"])
                  /\ invs' = Ev([invs EXCEPT ![f.inv].ctx = Len(ctxs) + 1],
                                f.inv, "ctx")
                  /\ UNCHANGED tempdirs
    /\ UNCHANGED <<PARALLEL_CONFIG>>
    /\ UNCHANGED functions

\* The futures _map_arg collects from an argument list: one per deferred
\* handle, at the top level or inside a collection.
RECURSIVE Futures(_)
Futures(args) ==
    IF args = <<>> THEN {}
    ELSE LET a == Head(args)
         IN  (CASE a.k = "proxy" -> {Future(a)}
                [] a.k = "coll" -> Futures(a.e)
                [] OTHER -> {})
             \cup Futures(Tail(args))

Finished(fs) == \A t \in fs : procs[t].status \in {"done", "failed"}

\* Proxy._get_element_ / Proxy.result on a finished future.
ResolveOne(v) == IF v.k = "proxy" THEN procs[Future(v)].results[v.s] ELSE v
Resolve(v) ==
    IF v.k = "coll" THEN Coll([i \in 1..Len(v.e) |-> ResolveOne(v.e[i])])
    ELSE ResolveOne(v)

\* ParallelContext._dispatch_, the guard of the leaf branch:
\* `PARALLEL_CONFIG.parallel_config is None`.
\* (GuardLeftOut: the leaf branch without the guard)
GuardLeftOut(config) == FALSE
NoParallelConfig(config) == ~config.loaded

\* ParallelContext._dispatch_.  The arguments are mapped and the executor
\* name is read from the routing table first.  A Pipeline is then bound to
\* this scope and run inline.  A Method or Visualizer passes the guard on
\* PARALLEL_CONFIG, gets its executor's kind from the scope's table, is
\* submitted as one python_app and the caller receives ProxyResults.
EverythingInline(action_obj) == TRUE

\* isinstance(self.action_obj, Pipeline)
RunsInline(action_obj) == action_obj.kind = "pipeline"

PDispatch(p) ==
    /\ At(p, "pdispatch")
    /\ LET f == Top(p)
           n == Len(procs[p].stack)
           iv == Ev(Ev([invs EXCEPT ![f.inv].deps = Futures(f.args)], f.inv, "mapped"),
                    f.inv, "routed")
           proxies(t) == [i \in 1..Len(f.act.outs) |-> Proxy(t, i, f.act.outs[i])]
       IN  IF RunsInline(f.act)
             THEN /\ procs' = SetTop(p, [f EXCEPT !.pc = "bind"])
                  /\ invs' = Ev(iv, f.inv, "inline")
                  /\ UNCHANGED tempdirs
             ELSE IF NoParallelConfig(PARALLEL_CONFIG)
                    THEN Raise(p, "ValueError:config", iv)
                    ELSE IF ~ctxs[f.ctx].loaded
                      THEN Raise(p, "TypeError:NoneType", Ev(iv, f.inv, "kind_lookup"))
                    ELSE \E t \in 2..MaxProcs :
                           /\ procs[t].status = "unused"
                           /\ \A u \in 2..(t - 1) : procs[u].status # "unused"
                           /\ procs' = [procs EXCEPT
                                ![t] = [IdleProc EXCEPT
                                          !.status = "pending", !.inv = f.inv,
                                          !.deps = Futures(f.args),
                                          !.stack = <<[f EXCEPT !.pc = "bind"]>>],
                                ![p] = IF n = 1
                                   THEN [@ EXCEPT !.stack = <<>>, !.status = "done",
                                                  !.results = proxies(t)]
                                   ELSE [@ EXCEPT !.stack =
                                          [SubSeq(@, 1, n - 1) EXCEPT
                                             ![n - 1].held = @ \o proxies(t),
                                             ![n - 1].pc = "p_body"]]]
                           /\ invs' = [Ev(Ev(iv, f.inv, "kind_lookup"), f.inv, "submitted")
                                          EXCEPT ![f.inv].deferred = TRUE]
                           /\ UNCHANGED tempdirs
    /\ UNCHANGED <<cache, PARALLEL_CONFIG, ctxs>>
    /\ UNCHANGED functions

\* The executor starts a submitted task once its inputs have resolved:
\* _run_parsl_action unmaps the arguments and calls the bound action.  A
\* failed input fails the task without running it.  The executor here has
\* one worker: its tasks run one at a time, each concurrently with the
\* thread that dispatched it.
TaskStart(t) ==
    /\ procs[t].status = "pending"
    /\ \A u \in 2..MaxProcs : procs[u].status # "running"
    /\ Finished(procs[t].deps)
    /\ LET f == procs[t].stack[1]
       IN  IF \E d \in procs[t].deps : procs[d].status = "failed"
             THEN /\ procs' = [procs EXCEPT ![t].status = "failed", ![t].stack = <<>>,
                                            ![t].error = "DependencyError"]
                  /\ invs' = [invs EXCEPT ![f.inv].outcome = "DependencyError"]
             ELSE /\ procs' = [procs EXCEPT ![t].status = "running",
                       ![t].stack[1].args = [i \in 1..Len(f.args) |-> Resolve(f.args[i])]]
                  /\ invs' = Ev(invs, f.inv, "unmapped")
    /\ UNCHANGED <<cache, PARALLEL_CONFIG, ctxs, tempdirs>>
    /\ UNCHANGED functions

\* ----------------------------------------------------------------- Pipeline
\* What the computation can pass to a nested call, and what it can return:
\* values it holds, None, some other object, or a list of them.
BodyArgs(held) == {<<>>} \cup (IF held = <<>> THEN {} ELSE {<<held[Len(held)]>>})
ReturnItems(held) ==
    Range(held) \cup {Junk, Coll(<<Junk>>)}
        \cup (IF held = <<>> THEN {} ELSE {Coll(held)})
\* One object (None when the computation returns nothing), a tuple of the
\* declared length, or a tuple one short or one long.
PipelineReturns(held, n) ==
    {None} \cup ReturnItems(held)
        \cup {Tup(s) : s \in [1..n -> ReturnItems(held)]}
        \cup {Tup([i \in 1..k |-> x]) : k \in {n - 1, n + 1}, x \in ReturnItems(held)}

\* Context.get_action: a child scope of the caller's own class, sharing its
\* cache and (ParallelContext.__init__) its executor tables; no index build.
ChildCtx(parent, act) ==
    [variant |-> ctxs[parent].variant, act |-> act, parent |-> parent,
     loaded |-> ctxs[parent].loaded]

\* The computation, one step of it: a nested call through ctx.get_action,
\* ctx.make_artifact, or an exception.
PBody(p) ==
    /\ At(p, "p_body")
    /\ LET f == Top(p)
       IN  \/ /\ OpsMade(p) < MaxBodyOps
              /\ Len(invs) < MaxInv
              /\ \E a \in NestedActions, args \in BodyArgs(f.held) :
                   /\ ctxs' = Append(ctxs, ChildCtx(f.ctx, a))
                   /\ invs' = Append(invs,
                         [Inv(a, "nested", f.inv) EXCEPT !.ctx = Len(ctxs) + 1])
                   /\ procs' = [procs EXCEPT ![p].stack =
                        Append([@ EXCEPT ![Len(@)].ops = f.ops + 1,
                                         ![Len(@)].pc = "p_wait"],
                               Frame(Len(invs) + 1, a, Len(ctxs) + 1, "action",
                                     f.mode, args))]
              /\ UNCHANGED tempdirs
           \/ /\ OpsMade(p) < MaxBodyOps
              /\ procs' = SetTop(p, [f EXCEPT !.ops = f.ops + 1,
                                 !.ref = Real(<<f.inv, f.made + 1>>, "T", "own"),
                                 !.made = f.made + 1, !.dst = "held_orig",
                                 !.pc = "ref_save", !.rpc = "p_body"])
              /\ UNCHANGED <<ctxs, invs, tempdirs>>
           \/ /\ Raise(p, "raised", Ev(invs, f.inv, "called"))
              /\ UNCHANGED ctxs
    /\ UNCHANGED <<cache, PARALLEL_CONFIG>>
    /\ UNCHANGED functions

\* Context._callable_action_ / ParallelContext._callable_action_: with a
\* named pool the index is probed (never with a deferred handle among the
\* arguments of a parallel scope); a hit returns the stored Results, anything
\* else goes on to _dispatch_.
proxies_overlooked(args) == FALSE

\* any(isinstance(arg, Proxy) for arg in args) or the same over kwargs
_contains_proxies(args) == \E i \in 1..Len(args) : args[i].k = "proxy"

CachedResults(a) ==
    [i \in 1..Len(a.outs) |->
        IF a.outs[i] = "C" THEN Coll(<<Real(NoId, "T", "named")>>)
        ELSE Real(NoId, a.outs[i], "named")]

named_pool_ignored(c) == FALSE

\* self.cache.named_pool is not None
named_pool_active(c) == c.named

Action(p) ==
    /\ At(p, "action")
    /\ LET f == Top(p)
           parallel == ctxs[f.ctx].variant = "parallel"
           probes == named_pool_active(cache)
                        /\ ~(parallel /\ _contains_proxies(f.args))
           go == [f EXCEPT !.pc = IF parallel THEN "pdispatch" ELSE "bind"]
       IN  \/ /\ probes
              /\ Return(p, CachedResults(f.act), Ev(Ev(invs, f.inv, "probed"), f.inv, "hit"))
           \/ /\ procs' = SetTop(p, go)
              /\ invs' = IF probes THEN Ev(invs, f.inv, "probed") ELSE invs
    /\ UNCHANGED <<cache, PARALLEL_CONFIG, ctxs, tempdirs>>
    /\ UNCHANGED functions

\* _coerce_pipeline_outputs in a parentless scope walks the outputs in
\* order: output.result(), then value.result() for every element of a
\* collection.  The walk stops at the first object without .result (an
\* AttributeError), at the first failed future, or waits at a pending one.
Walk(outputs) ==
    LET items(o) == IF o.k = "coll" THEN o.e ELSE IF o.k = "none" THEN <<>> ELSE <<o>>
        F[i \in 0..Len(outputs)] ==
            IF i = 0 THEN <<>> ELSE F[i - 1] \o items(outputs[i])
    IN  F[Len(outputs)]

RECURSIVE WalkStatus(_)
WalkStatus(items) ==
    IF items = <<>> THEN "ok"
    ELSE LET v == Head(items)
         IN  CASE v.k \in {"junk", "none", "empty"} -> "AttributeError"
               [] v.k = "proxy" /\ procs[Future(v)].status = "failed" -> "future_failed"
               [] v.k = "proxy" /\ procs[Future(v)].status # "done" -> "wait"
               [] OTHER -> WalkStatus(Tail(items))

\* (_coerce_without_result: the same function never calling .result())
_coerce_without_result(root, outputs) == outputs
_coerce_pipeline_outputs(root, outputs) ==
    IF root THEN [i \in 1..Len(outputs) |-> Resolve(outputs[i])] ELSE outputs

IsResult(v) == v.k \in {"real", "proxy"}

scope_taken_as_root(parent) == TRUE

\* ctx._parent is None
parent_is_None(parent) == parent = 0

\* Pipeline._callable_executor_ from the computation's return on: the
\* outputs are tuplized and coerced (a parentless scope blocks in .result()
\* until the futures it walks have finished), the count is checked, then
\* every output (every element of a collection) must be an IResult.
PReturn(p) ==
    /\ At(p, "p_body")
    /\ LET f == Top(p)
           root == parent_is_None(ctxs[f.ctx].parent)
       IN  \E r \in PipelineReturns(f.held, Len(f.act.outs)) :
             LET ret == tuplize(r)
                 st == IF root THEN WalkStatus(Walk(ret)) ELSE "ok"
                 outs == _coerce_pipeline_outputs(root, ret)
                 bad == {i \in 1..Len(outs) :
                           IF outs[i].k = "coll"
                             THEN \E j \in 1..Len(outs[i].e) : ~IsResult(outs[i].e[j])
                             ELSE ~IsResult(outs[i])}
                 first == CHOOSE i \in bad : \A j \in bad : i <= j
                 iv == [Ev(invs, f.inv, "called") EXCEPT ![f.inv].nret = Len(ret)]
                 walked == Walk(ret)
                 noresult == {i \in 1..Len(walked) :
                                walked[i].k \in {"junk", "none", "empty"}}
                 offender == walked[CHOOSE i \in noresult : \A j \in noresult : i <= j]
             IN  /\ st # "wait"
                 /\ IF st = "AttributeError"
                      THEN Raise(p, st, [iv EXCEPT ![f.inv].errval = offender])
                    ELSE IF st # "ok" THEN Raise(p, st, iv)
                    ELSE IF Len(outs) # Len(f.act.outs)
                      THEN Raise(p, "TypeError:count", iv)
                    ELSE IF bad # {}
                      THEN Raise(p, "TypeError:contract",
                                 [iv EXCEPT ![f.inv].errval = outs[first]])
                    ELSE /\ procs' = SetTop(p, [f EXCEPT !.ret = outs, !.i = 1,
                                                         !.outs = <<>>, !.pc = "p_alias"])
                         /\ invs' = Ev(iv, f.inv, "coerced")
                         /\ UNCHANGED tempdirs
    /\ UNCHANGED <<cache, PARALLEL_CONFIG, ctxs>>
    /\ UNCHANGED functions

\* Pipeline._callable_executor_, the aliasing loop over zip(outputs,
\* output_types): a Collection output is aliased element by element into a
\* new ResultCollection, any other output once; each alias of a Result is a
\* new Result registered with the scope, and a deferred handle stays deferred.
PAlias(p) ==
    /\ At(p, "p_alias")
    /\ LET f == Top(p)
       IN  IF f.i > Len(f.ret)
             THEN IF Len(f.outs) # Len(f.act.outs)
                    THEN Raise(p, "ValueError:count", invs)
                    ELSE Finish(p, f, invs)
             ELSE
               LET o == f.ret[f.i]
                   spec == f.act.outs[f.i]
                   g == IF spec = "C" /\ f.j = 0
                          THEN [f EXCEPT !.outs = Append(@, Coll(<<>>)), !.j = 1]
                          ELSE f
                   v == IF spec = "C" THEN o.e[g.j] ELSE o
                   next == IF spec = "C" THEN [g EXCEPT !.j = g.j + 1]
                           ELSE [g EXCEPT !.i = g.i + 1]
                   dst == IF spec = "C" THEN "coll" ELSE "outs"
               IN  IF \/ spec = "C" /\ o.k # "coll"
                      \/ spec = "C" /\ \E n \in 1..Len(o.e) : o.e[n].ty # "T"
                      \/ spec # "C" /\ o.k = "coll"
                     THEN Raise(p, "AttributeError", invs)
                   ELSE IF spec # "C" /\ o.ty # spec
                     THEN Raise(p, "TypeError:output_type", invs)
                   ELSE IF spec = "C" /\ g.j > Len(o.e)
                     THEN /\ procs' = SetTop(p, [g EXCEPT !.i = g.i + 1, !.j = 0])
                          /\ UNCHANGED <<invs, tempdirs>>
                   ELSE IF v.k = "proxy"
                     THEN /\ procs' = SetTop(p,
                               [Place([next EXCEPT !.ref = v, !.dst = dst])
                                   EXCEPT !.ref = None, !.dst = ""])
                          /\ UNCHANGED <<invs, tempdirs>>
                   ELSE /\ procs' = SetTop(p, [next EXCEPT
                               !.ref = Real(<<f.inv, f.made + 1>>, v.ty, "own"),
                               !.made = f.made + 1, !.dst = dst,
                               !.pc = "ref_save", !.rpc = "p_alias"])
                        /\ invs' = Ev(invs, f.inv, "aliased")
                        /\ UNCHANGED tempdirs
    /\ UNCHANGED <<cache, PARALLEL_CONFIG, ctxs>>
    /\ UNCHANGED functions

Next ==
    \/ \E a \in Actions, entry \in {"call", "parallel"}, args \in RootArgs :
          RootCall(a, entry, args)
    \/ \E p \in 1..MaxProcs :
          \/ Bind(p)
          \/ AddRefSave(p) \/ AddRefNamed(p)
          \/ MCall(p) \/ MCoerce(p)
          \/ VEnter(p) \/ VCall(p) \/ VBuild(p) \/ VExit(p)
          \/ ParslWrapper(p) \/ PDispatch(p) \/ TaskStart(p)
          \/ PBody(p) \/ PReturn(p) \/ Action(p) \/ PAlias(p)

Spec == Init /\ [][Next]_vars

\* The engine at rest, while one of its functions is run on its own.
EngineIdle ==
    /\ cache = [lock |-> 0, process_pool |-> {}, named_pool |-> {},
                named |-> FALSE, indexBuilds |-> 0]
    /\ PARALLEL_CONFIG = [loaded |-> FALSE]
    /\ ctxs = <<>>
    /\ procs = [p \in 1..MaxProcs |-> IdleProc]
    /\ invs = <<>>
    /\ tempdirs = {}

DistinctSeqs(S, n) ==
    {s \in SeqsUpTo(S, n) : \A i, j \in 1..Len(s) : i # j => s[i] # s[j]}

\* ------------------------------------------------- aliasing of a collection
\* Pipeline._callable_executor_, the loop over one output declared as a
\* Collection, run on its own on a returned ResultCollection.
MaxElems == 3      \* elements of the returned collection

\* The keys of a Python dict: the int 1 and the str "1" are different keys.
Key(t, v) == [t |-> t, v |-> v]
Keys == {Key("int", "1"), Key("int", "2"), Key("str", "1"), Key("str", "a")}
\* str(key): an int gives its decimal digits, a str is itself.
str(key) == Key("str", key.v)

\* The name of an element, from the four arguments it is given.
create_collection_name(name, key, idx, size) == <<name, key, idx, size>>

\* ResultCollection.__setitem__ on the ordered mapping: a key already there
\* keeps its place and gets the new value, a new key goes last.
setitem(collection, key, value) ==
    IF \E i \in 1..Len(collection) : collection[i].key = key
      THEN [i \in 1..Len(collection) |->
              IF collection[i].key = key THEN [key |-> key, value |-> value]
              ELSE collection[i]]
      ELSE Append(collection, [key |-> key, value |-> value])

\* Result._alias(name, provenance, ctx): a new Result over the same data.
_alias(value, name) == [data |-> value.data, name |-> name]

\* What the computation can return for the output: up to MaxElems Results
\* under distinct keys, in the order it put them in.
ReturnedCollections ==
    {[i \in 1..Len(ks) |-> [key |-> ks[i], value |-> [data |-> i, name |-> "in"]]] :
        ks \in DistinctSeqs(Keys, MaxElems)}

AliasInit ==
    /\ EngineIdle
    /\ \E output \in ReturnedCollections :
         alias = [pc |-> "loop", name |-> "out", output |-> output,
                  size |-> Len(output), idx |-> 0, aliased_output |-> <<>>,
                  results |-> <<>>]
    /\ fingerprint = Off /\ probe = Off /\ scopes = Off /\ asynchronous = Off
    /\ archiver = Off /\ note = Off /\ argtree = Off

\* One turn of `for idx, (key, value) in enumerate(output.items())`.
AliasElement ==
    /\ alias.pc = "loop"
    /\ alias.idx < alias.size
    /\ LET e == alias.output[alias.idx + 1]
           collection_name == create_collection_name(alias.name, e.key, alias.idx,
                                                     alias.size)
           aliased_result == _alias(e.value, collection_name)
       IN  alias' = [alias EXCEPT
                       !.aliased_output = setitem(@, str(e.key), aliased_result),
                       !.idx = @ + 1]
    /\ UNCHANGED <<engine, fingerprint, probe, scopes, asynchronous, others>>

\* results.append(aliased_output)
AliasAppend ==
    /\ alias.pc = "loop"
    /\ alias.idx = alias.size
    /\ alias' = [alias EXCEPT !.results = Append(@, alias.aliased_output),
                              !.pc = "done"]
    /\ UNCHANGED <<engine, fingerprint, probe, scopes, asynchronous, others>>

AliasNext == AliasElement \/ AliasAppend

AliasSpec == AliasInit /\ [][AliasNext]_vars

\* ------------------------------------------------ the cache-probe fingerprint
\* Context._check_cache up to HashableInvocation(plugin_action, arguments),
\* run on its own for two invocations x and y.
MaxParams == 2     \* parameters of the larger of the two actions

PluginIds == {<<"q", "_", "p">>, <<"q", "-", "p">>, <<"r">>}
ActionIds == {<<"f">>, <<"g">>}
InputValues == {0, 1}
\* The parameters of an action's signature, in declaration order.
Parameters(id) == IF id = <<"f">> THEN [i \in 1..MaxParams |-> <<"p", i>>]
                  ELSE <<<<"p", 1>>>>

\* signature.coerce_user_input(**collated_inputs): the ordered mapping of
\* parameter name to coerced value.
CallableArgs(id) ==
    {[i \in 1..Len(Parameters(id)) |-> [k |-> Parameters(id)[i], v |-> vs[i]]] :
        vs \in [1..Len(Parameters(id)) -> InputValues]}

\* An invocation as a probe sees it, with the scope and the process it is
\* made in.
Invocations ==
    {i \in [scope : {"s1", "s2"}, process : {"p1", "p2"}, plugin_id : PluginIds,
            id : ActionIds, callable_args : UNION {CallableArgs(a) : a \in ActionIds}] :
        i.callable_args \in CallableArgs(i.id)}

\* str.replace(old, new) on a string of one-character pieces.
replace(s, old, new) == [i \in 1..Len(s) |-> IF s[i] = old THEN new ELSE s[i]]

\* (plugin_id_as_written: the plugin id used without the replace)
plugin_id_as_written(plugin_id) == plugin_id
\* self.action_obj.plugin_id.replace('_', '-')
normalized_plugin_id(plugin_id) == replace(plugin_id, "_", "-")

\* f'{plugin}:{self.action_obj.id}'
plugin_action(plugin_id, id) == normalized_plugin_id(plugin_id) \o <<":">> \o id

\* for k, v in callable_args.items(): arguments.append({k: v})
arguments(callable_args) ==
    [i \in 1..Len(callable_args) |-> {<<callable_args[i].k, callable_args[i].v>>}]

\* HashableInvocation(plugin_action, arguments): equal, and hashed equal,
\* exactly when both parts are equal.
HashableInvocation(pa, args) == [plugin_action |-> pa, arguments |-> args]

FingerprintInit ==
    /\ EngineIdle
    /\ \E x, y \in Invocations :
         fingerprint = [pc |-> "run", of |-> [w \in {"x", "y"} |-> IF w = "x" THEN x ELSE y],
                        built |-> {}, invocation |-> [w \in {"x", "y"} |-> Off]]
    /\ alias = Off /\ probe = Off /\ scopes = Off /\ asynchronous = Off
    /\ archiver = Off /\ note = Off /\ argtree = Off

\* _check_cache builds the fingerprint of invocation w.
BuildInvocation(w) ==
    /\ fingerprint.pc = "run"
    /\ w \notin fingerprint.built
    /\ LET i == fingerprint.of[w]
       IN  fingerprint' = [fingerprint EXCEPT
              !.built = @ \cup {w},
              !.invocation[w] = HashableInvocation(plugin_action(i.plugin_id, i.id),
                                                   arguments(i.callable_args))]
    /\ UNCHANGED <<engine, alias, probe, scopes, asynchronous, others>>

FingerprintNext == \E w \in {"x", "y"} : BuildInvocation(w)

FingerprintSpec == FingerprintInit /\ [][FingerprintNext]_vars

\* ------------------------------------------------------------ the cache probe
\* Context._callable_action_ with a named pool: _check_cache finds the
\* invocation in the index or not, _load_cache rebuilds the recorded outputs,
\* and anything but a Results goes on to _dispatch_.
MaxRecorded == 2   \* elements recorded for a collection, and their totals

ItemNames == {"a", "b"}
\* The keys of a recorded collection: what each element says about itself.
ElemInfos == [total : 1..MaxRecorded, idx : 0..(MaxRecorded - 1), item_name : ItemNames]
RecordedCollections == DistinctSeqs(ElemInfos, MaxRecorded)
ProbeOutputs == {<<"C">>, <<"T", "C">>, <<"C", "T">>}

\* The recorded outputs of an index entry: a reference for a single output,
\* the recorded collection (each element with its reference) for a Collection.
CachedOutputs(outputs, collection) ==
    [i \in 1..Len(outputs) |->
        IF outputs[i] = "C"
          THEN [j \in 1..Len(collection) |-> [info |-> collection[j], ref |-> <<i, j>>]]
          ELSE <<i, 0>>]
Refs(outputs, collection) ==
    UNION {IF outputs[i] = "C" THEN {<<i, j>> : j \in 1..Len(collection)} ELSE {<<i, 0>>} :
              i \in 1..Len(outputs)}

\* (_accept_collection: a validation that accepts every recorded collection)
_accept_collection(collection_order) == TRUE
\* _validate_collection on a list that has a first element.
_validate_collection(collection_order) ==
    ~(\/ ~(\A k \in 1..Len(collection_order) :
              collection_order[k].total = collection_order[1].total)
      \/ Len(collection_order) # collection_order[1].total)

stored_order(s) == s

\* list.sort(key=lambda x: x.idx): stable, ascending.
RECURSIVE SortByIdx(_)
SortByIdx(s) ==
    IF s = <<>> THEN <<>>
    ELSE LET rest == SortByIdx(Tail(s))
             h == Head(s)
             k == Cardinality({j \in 1..Len(rest) : rest[j].info.idx < h.info.idx})
         IN  SubSeq(rest, 1, k) \o <<h>> \o SubSeq(rest, k + 1, Len(rest))

\* loaded_collection[elem_info.item_name] = loaded_elem, in the sorted order.
RECURSIVE LoadedCollection(_)
LoadedCollection(order) ==
    IF order = <<>> THEN <<>>
    ELSE LET n == Len(order)
         IN  setitem(LoadedCollection(SubSeq(order, 1, n - 1)),
                     order[n].info.item_name, order[n].ref)

NoResults == <<"None">>

ProbeInit ==
    /\ EngineIdle
    /\ \E outputs \in ProbeOutputs, collection \in RecordedCollections,
          indexed \in BOOLEAN :
         \E lost \in {{}} \cup {{r} : r \in Refs(outputs, collection)} :
           probe = [pc |-> "check", outputs |-> outputs, indexed |-> indexed,
                    cached_outputs |-> CachedOutputs(outputs, collection),
                    pool |-> Refs(outputs, collection) \ lost,
                    i |-> 1, examined |-> 0, loaded_outputs |-> <<>>,
                    warnings |-> 0, cause |-> "", results |-> NoResults]
    /\ alias = Off /\ fingerprint = Off /\ scopes = Off /\ asynchronous = Off
    /\ archiver = Off /\ note = Off /\ argtree = Off

\* _check_cache: `invocation in self.cache.named_pool.index`.
ProbeCheckCache ==
    /\ probe.pc = "check"
    /\ probe' = [probe EXCEPT !.pc = IF probe.indexed THEN "load" ELSE "miss"]
    /\ UNCHANGED <<engine, alias, fingerprint, scopes, asynchronous, others>>

KeyErrorPropagates == "failed"

\* try: return self._load_cache(invocation) / except KeyError: pass
KeyErrorCaught == "miss"

\* _load_cache, one turn of the loop over the declared outputs.  An empty
\* recorded collection raises IndexError at collection_order[0], which
\* _check_cache does not catch; a load of a reference the pool has lost
\* raises KeyError, which it catches.
ProbeLoadOutput ==
    /\ probe.pc = "load"
    /\ probe.i <= Len(probe.outputs)
    /\ LET i == probe.i
           cached == probe.cached_outputs[i]
           seen == [probe EXCEPT !.examined = i]
           collection_order == [j \in 1..Len(cached) |-> cached[j].info]
       IN  IF probe.outputs[i] = "C"
             THEN IF cached = <<>>
                    THEN probe' = [seen EXCEPT !.pc = "failed", !.cause = "IndexError"]
                  ELSE IF ~_validate_collection(collection_order)
                    THEN probe' = [seen EXCEPT !.pc = "miss", !.cause = "incomplete",
                                               !.warnings = @ + 1]
                  ELSE IF \E j \in 1..Len(cached) : cached[j].ref \notin probe.pool
                    THEN probe' = [seen EXCEPT !.pc = KeyErrorCaught, !.cause = "KeyError"]
                  ELSE probe' = [seen EXCEPT
                          !.loaded_outputs = Append(@, LoadedCollection(SortByIdx(cached))),
                          !.i = i + 1]
             ELSE IF cached \notin probe.pool
                    THEN probe' = [seen EXCEPT !.pc = KeyErrorCaught, !.cause = "KeyError"]
                    ELSE probe' = [seen EXCEPT !.loaded_outputs = Append(@, cached),
                                               !.i = i + 1]
    /\ UNCHANGED <<engine, alias, fingerprint, scopes, asynchronous, others>>

ResultsOfFirstOutput(loaded_outputs) == SubSeq(loaded_outputs, 1, 1)

\* qiime2.sdk.Results(loaded_outputs.keys(), loaded_outputs.values()): the
\* values of the dict, in the order the loop inserted them.
LoadedResults(loaded_outputs) == loaded_outputs

\* return qiime2.sdk.Results(loaded_outputs.keys(), loaded_outputs.values())
ProbeResults ==
    /\ probe.pc = "load"
    /\ probe.i > Len(probe.outputs)
    /\ probe' = [probe EXCEPT !.pc = "hit", !.results = LoadedResults(probe.loaded_outputs)]
    /\ UNCHANGED <<engine, alias, fingerprint, scopes, asynchronous, others>>

\* _callable_action_ without cached results: return self._dispatch_(args, kwargs)
ProbeDispatch ==
    /\ probe.pc = "miss"
    /\ probe' = [probe EXCEPT !.pc = "dispatched"]
    /\ UNCHANGED <<engine, alias, fingerprint, scopes, asynchronous, others>>

ProbeNext == ProbeCheckCache \/ ProbeLoadOutput \/ ProbeResults \/ ProbeDispatch

ProbeSpec == ProbeInit /\ [][ProbeNext]_vars

\* ------------------------------------------------ scopes and their registry
\* Context.__init__ and Context.get_action, run on their own: scopes are
\* constructed by the three entry points of an Action, by get_action and
\* directly, over two Cache objects of which the first has a named pool.

MaxScopes == 3

Caches == {1, 2}

\* self.cache.named_pool is not None
HasNamedPool(c) == c = 1

\* The plugins of the PluginManager and the actions of each; a name is the
\* sequence of its characters.
Plugins == {<<"q", "-", "p">>}

PluginActions(plugin) == {<<"f", "_", "g">>}

PluginNames == {<<"q", "-", "p">>, <<"q", "_", "p">>, <<"r">>}

ActionNames == {<<"f", "_", "g">>, <<"f", "-", "g">>, <<"h">>}

ContextClasses == {"Context", "ParallelContext", "AsynchronousContext"}

Scope(cls, action_obj, parent, c) ==
    [cls |-> cls, action_obj |-> action_obj, parent |-> parent, cache |-> c]

\* PARALLEL_CONFIG: parallel_config is None (0) or the loaded configuration;
\* action_executor_mapping is the table that goes with it (table 0 goes with
\* no configuration and routes nothing).
Configs == {1, 2}

\* The executor labels of a configuration, each with the kind of its executor.
ConfigExecutors(k) == IF k = 1 THEN {"default"} ELSE {"default", "htex"}

\* action_executor_mapping[plugin_id].get(action_id, 'default') for the
\* action of the model, and 'default' when the plugin is not in the table.
RoutedExecutor(table) == IF table = 2 THEN "htex" ELSE "default"

NoCall == [op |-> "none", raised |-> "none", named |-> <<>>, cls |-> "none",
           action_obj |-> "none", parent |-> 0, plugin |-> <<>>,
           action |-> <<>>, scopes |-> 0, index_builds |-> [c \in Caches |-> 0]]

\* get_cache(): the Cache that is current where the constructor runs.
get_cache(S, parent) == S.current

current_cache(S, parent) == S.current

\* parent.cache
parent_cache(S, parent) == S.ctxs[parent].cache

\* PARALLEL_CONFIG.action_executor_mapping, and None or the label -> kind
\* table made of PARALLEL_CONFIG.parallel_config.executors (0 is None).
tables_of_config(S, parent) ==
    [action_executor_mapping |-> S.config, executor_name_type_mapping |-> S.config]

tables_read_again(S, parent) ==
    [action_executor_mapping |-> S.config, executor_name_type_mapping |-> S.config]

\* parent.action_executor_mapping, parent.executor_name_type_mapping
parent_tables(S, parent) ==
    [action_executor_mapping |-> S.ctxs[parent].action_executor_mapping,
     executor_name_type_mapping |-> S.ctxs[parent].executor_name_type_mapping]

\* ParallelContext.__init__ after Context.__init__: the two tables are the
\* parent's, or are taken from PARALLEL_CONFIG by a parentless scope.
\* The other classes have no tables.
WithTables(S, scope) ==
    IF scope.cls # "ParallelContext" THEN scope
    ELSE LET t == IF scope.parent # 0 THEN parent_tables(S, scope.parent)
                  ELSE tables_of_config(S, scope.parent)
         IN  [cls |-> scope.cls, action_obj |-> scope.action_obj,
              parent |-> scope.parent, cache |-> scope.cache,
              action_executor_mapping |-> t.action_executor_mapping,
              executor_name_type_mapping |-> t.executor_name_type_mapping]

ActionNeverRequired(action_obj, parent) == FALSE

ActionAlwaysRequired(action_obj, parent) == action_obj = "None"

\* if action_obj is None and parent is not None: raise ValueError
ActionRequired(action_obj, parent) == action_obj = "None" /\ parent # 0

\* Context.__init__(action_obj, parent) of class cls, called as operation op:
\* the cache is taken, the index of a named pool is built for a parentless
\* scope inside `with self.cache.lock`, and only then is the action checked.
ContextInit(S, op, cls, action_obj, parent) ==
    LET c     == IF parent # 0 THEN parent_cache(S, parent)
                 ELSE get_cache(S, parent)
        built == IF parent = 0 /\ HasNamedPool(c)
                 THEN [S.index_builds EXCEPT ![c] = @ + 1]
                 ELSE S.index_builds
        call  == [NoCall EXCEPT !.op = op, !.cls = cls,
                                !.action_obj = action_obj, !.parent = parent,
                                !.scopes = Len(S.ctxs),
                                !.index_builds = S.index_builds]
    IN  IF ActionRequired(action_obj, parent)
        THEN [S EXCEPT !.index_builds = built,
                       !.last = [call EXCEPT !.raised = "ValueError"]]
        ELSE [S EXCEPT !.ctxs = Append(@, WithTables(S, Scope(cls, action_obj, parent, c))),
                       !.index_builds = built,
                       !.last = call]

ScopesInit ==
    /\ EngineIdle
    /\ alias = Off /\ fingerprint = Off /\ probe = Off /\ asynchronous = Off
    /\ archiver = Off /\ note = Off /\ argtree = Off
    /\ \E c \in Caches :
       \E config \in {0, 1} :
        scopes = [pc |-> "on", ctxs |-> <<>>, current |-> c, config |-> config,
                  index_builds |-> [k \in Caches |-> 0],
                  looked_up |-> [k \in Caches |-> FALSE], last |-> NoCall]

\* A `with cache:` block makes another Cache the current one.
UseCache(c) ==
    /\ scopes.pc = "on" /\ c # scopes.current
    /\ scopes' = [scopes EXCEPT !.current = c,
                                !.last = [NoCall EXCEPT !.op = "use_cache"]]
    /\ UNCHANGED <<engine, alias, fingerprint, probe, asynchronous, others>>

\* The scope each entry point of an Action constructs: __call__ a Context,
\* the asynchronous wrapper an AsynchronousContext, the parsl wrapper a
\* ParallelContext, each of the action and without a parent.
EntryScope(cls) ==
    /\ scopes.pc = "on" /\ Len(scopes.ctxs) < MaxScopes
    /\ scopes' = ContextInit(scopes, "entry", cls, "action", 0)
    /\ UNCHANGED <<engine, alias, fingerprint, probe, asynchronous, others>>

\* Context(None, parent) and Context(): a scope constructed without an action.
ContextWithoutAction(parent) ==
    /\ scopes.pc = "on" /\ Len(scopes.ctxs) < MaxScopes
    /\ parent \in 0..Len(scopes.ctxs)
    /\ scopes' = ContextInit(scopes, "construct", "Context", "None", parent)
    /\ UNCHANGED <<engine, alias, fingerprint, probe, asynchronous, others>>

action_key_normalized(action) == replace(action, "-", "_")

\* plugin_obj.actions[action]: the action's name is the key as it was given.
action_key(action) == action

\* Context.get_action(plugin, action) on scope c.
get_action(c, plugin, action) ==
    /\ scopes.pc = "on" /\ Len(scopes.ctxs) < MaxScopes
    /\ c \in 1..Len(scopes.ctxs)
    /\ LET plugin_ == replace(plugin, "_", "-")
           call == [NoCall EXCEPT !.op = "get_action", !.parent = c,
                                  !.plugin = plugin, !.action = action,
                                  !.scopes = Len(scopes.ctxs),
                                  !.index_builds = scopes.index_builds]
       IN  IF plugin_ \notin Plugins
           THEN scopes' = [scopes EXCEPT !.last =
                    [call EXCEPT !.raised = "ValueError", !.named = plugin_]]
           ELSE IF action_key(action) \notin PluginActions(plugin_)
           THEN scopes' = [scopes EXCEPT !.last =
                    [call EXCEPT !.raised = "ValueError", !.named = action]]
           ELSE scopes' = [ContextInit(scopes, "get_action", scopes.ctxs[c].cls,
                                       "action", c)
                           EXCEPT !.last = call]
    /\ UNCHANGED <<engine, alias, fingerprint, probe, asynchronous, others>>

\* Context._check_cache on scope c: the index of the named pool is read.
IndexLookup(c) ==
    /\ scopes.pc = "on"
    /\ c \in 1..Len(scopes.ctxs)
    /\ HasNamedPool(scopes.ctxs[c].cache)
    /\ ~scopes.looked_up[scopes.ctxs[c].cache]
    /\ scopes' = [scopes EXCEPT !.looked_up[scopes.ctxs[c].cache] = TRUE,
                                !.last = [NoCall EXCEPT !.op = "lookup"]]
    /\ UNCHANGED <<engine, alias, fingerprint, probe, asynchronous, others>>

\* PARALLEL_CONFIG is set to another configuration: the first one is loaded,
\* or the loaded one is replaced by the next.
LoadConfig(k) ==
    /\ scopes.pc = "on" /\ k = scopes.config + 1
    /\ scopes' = [scopes EXCEPT !.config = k,
                                !.last = [NoCall EXCEPT !.op = "load_config"]]
    /\ UNCHANGED <<engine, alias, fingerprint, probe, asynchronous, others>>

\* ParallelContext._dispatch_ of a Method or Visualizer on scope c, from the
\* routing on: the executor name is read from the scope's routing table, the
\* guard reads PARALLEL_CONFIG, then the executor's kind is looked up in the
\* scope's label -> kind table (None[...] is a TypeError, a missing label a
\* KeyError) and the task is submitted.
LeafDispatch(c) ==
    /\ scopes.pc = "on"
    /\ c \in 1..Len(scopes.ctxs)
    /\ scopes.ctxs[c].cls = "ParallelContext"
    /\ LET executor == RoutedExecutor(scopes.ctxs[c].action_executor_mapping)
           table == scopes.ctxs[c].executor_name_type_mapping
           call == [NoCall EXCEPT !.op = "dispatch", !.parent = c,
                                  !.scopes = Len(scopes.ctxs),
                                  !.index_builds = scopes.index_builds]
       IN  scopes' = [scopes EXCEPT !.last =
              [call EXCEPT !.raised =
                  IF scopes.config = 0 THEN "ValueError"
                  ELSE IF table = 0 THEN "TypeError"
                  ELSE IF executor \notin ConfigExecutors(table) THEN "KeyError"
                  ELSE "none"]]
    /\ UNCHANGED <<engine, alias, fingerprint, probe, asynchronous, others>>

ScopesNext ==
    \/ \E c \in Caches : UseCache(c)
    \/ \E cls \in ContextClasses : EntryScope(cls)
    \/ \E parent \in 0..MaxScopes : ContextWithoutAction(parent)
    \/ \E c \in 1..MaxScopes, plugin \in PluginNames, action \in ActionNames :
        get_action(c, plugin, action)
    \/ \E c \in 1..MaxScopes : IndexLookup(c)
    \/ \E k \in Configs : LoadConfig(k)
    \/ \E c \in 1..MaxScopes : LeafDispatch(c)

ScopesSpec == ScopesInit /\ [][ScopesNext]_vars

\* ------------------------------------------------- the asynchronous entry point
\* AsynchronousContext._dispatch_, run on its own: the calls of one action's
\* asynchronous wrapper, which all go through the one AsynchronousContext
\* that the Action constructed for it, and the worker processes they start.

MaxCalls == 2

\* plt.rcParams['backend']; "absent" when matplotlib cannot be imported.
Backends == {"MacOSX", "macosx", "Agg", "absent"}

unchanged_case(backend) == backend

\* str.lower()
lower(backend) == IF backend = "MacOSX" THEN "macosx"
                  ELSE IF backend = "Agg" THEN "agg" ELSE backend

\* concurrent.futures.ProcessPoolExecutor(max_workers=1) with the one task
\* submitted to it by the scope.
Pool(scope) == [scope |-> scope, tasks |-> 1, task |-> "pending",
                worker |-> "idle", shutdown |-> FALSE]

NoDispatch == [op |-> "none", backend |-> "", raised |-> "none", pools |-> 0,
               returned |-> "none"]

AsyncInit ==
    /\ EngineIdle
    /\ alias = Off /\ fingerprint = Off /\ probe = Off /\ scopes = Off
    /\ archiver = Off /\ note = Off /\ argtree = Off
    /\ \E backend \in Backends :
         asynchronous = [pc |-> "on", backend |-> backend, scope |-> 1,
                         pools |-> <<>>, calls |-> 0, last |-> NoDispatch]

\* The matplotlibrc "backend" parameter is changed between calls.
SetBackend(backend) ==
    /\ asynchronous.pc = "on" /\ backend # asynchronous.backend
    /\ asynchronous.calls < MaxCalls
    /\ asynchronous' = [asynchronous EXCEPT !.backend = backend]
    /\ UNCHANGED <<engine, alias, fingerprint, probe, scopes, others>>

\* AsynchronousContext._dispatch_: the backend check, then a new pool of one
\* worker, the submission of _subprocess_apply to it, and the return of the
\* future; the pool is not shut down.
AsyncDispatch ==
    /\ asynchronous.pc = "on"
    /\ asynchronous.calls < MaxCalls
    /\ LET call == [NoDispatch EXCEPT !.op = "dispatch",
                                      !.backend = asynchronous.backend,
                                      !.pools = Len(asynchronous.pools)]
       IN  IF asynchronous.backend # "absent"
              /\ lower(asynchronous.backend) = "macosx"
           THEN asynchronous' = [asynchronous EXCEPT
                    !.calls = @ + 1,
                    !.last = [call EXCEPT !.raised = "EnvironmentError"]]
           ELSE asynchronous' = [asynchronous EXCEPT
                    !.calls = @ + 1,
                    !.pools = Append(@, Pool(asynchronous.scope)),
                    !.last = [call EXCEPT !.returned = "pending"]]
    /\ UNCHANGED <<engine, alias, fingerprint, probe, scopes, others>>

\* _subprocess_apply: the worker of pool k takes its task and runs the bound
\* action.
_subprocess_apply(k) ==
    /\ asynchronous.pc = "on"
    /\ k \in 1..Len(asynchronous.pools)
    /\ asynchronous.pools[k].task = "pending"
    /\ asynchronous' = [asynchronous EXCEPT !.pools[k].task = "running",
                                            !.pools[k].worker = "busy"]
    /\ UNCHANGED <<engine, alias, fingerprint, probe, scopes, others>>

\* return results: the task of pool k completes and its future resolves,
\* with the Results or with the exception the action raised.
SubprocessReturn(k) ==
    /\ asynchronous.pc = "on"
    /\ k \in 1..Len(asynchronous.pools)
    /\ asynchronous.pools[k].task = "running"
    /\ \E outcome \in {"done", "raised"} :
         asynchronous' = [asynchronous EXCEPT !.pools[k].task = outcome,
                                              !.pools[k].worker = "idle"]
    /\ UNCHANGED <<engine, alias, fingerprint, probe, scopes, others>>

\* No pool.shutdown() is called: the worker of a pool goes away only once
\* the executor, dropped when _dispatch_ returned, has no work left.
WorkerExit(k) ==
    /\ asynchronous.pc = "on"
    /\ k \in 1..Len(asynchronous.pools)
    /\ asynchronous.pools[k].task \in {"done", "raised"}
    /\ asynchronous.pools[k].worker = "idle"
    /\ asynchronous' = [asynchronous EXCEPT !.pools[k].worker = "exited"]
    /\ UNCHANGED <<engine, alias, fingerprint, probe, scopes, others>>

AsyncNext ==
    \/ \E backend \in Backends : SetBackend(backend)
    \/ AsyncDispatch
    \/ \E k \in 1..MaxCalls : _subprocess_apply(k)
    \/ \E k \in 1..MaxCalls : SubprocessReturn(k)
    \/ \E k \in 1..MaxCalls : WorkerExit(k)

AsyncSpec == AsyncInit /\ [][AsyncNext]_vars

\* ------------------------------------------------ the archive format version
\* artifact_version (qiime2/core/archive/format/util.py), run on its own:
\* `with artifact_version(v):` blocks are entered, nested, and left, normally
\* or by an exception that the block lets through.

MaxDepth == 3

\* Archiver._FORMAT_REGISTRY: the supported versions, as strings.
_FORMAT_REGISTRY == {"4", "5", "7.0"}

\* What callers pass: an int, the same as a str, and a name that is no version.
Versions == {Key("int", "4"), Key("str", "4"), Key("str", "5"),
             Key("str", "7.0"), Key("str", "foo")}

NoVersionCall == [op |-> "none", version |-> Key("str", ""), raised |-> "none",
                  before |-> "", depth |-> 0]

version_left_as_set(block) == block.version

\* finally: Archiver.CURRENT_FORMAT_VERSION = original_version
version_restored(block) == block.original_version

VersionInit ==
    /\ EngineIdle
    /\ alias = Off /\ fingerprint = Off /\ probe = Off
    /\ scopes = Off /\ asynchronous = Off /\ note = Off /\ argtree = Off
    /\ archiver = [pc |-> "on", CURRENT_FORMAT_VERSION |-> "7.0",
                   initial |-> "7.0", blocks |-> <<>>, last |-> NoVersionCall]

\* artifact_version(version) up to its yield.
artifact_version(version) ==
    /\ archiver.pc = "on"
    /\ Len(archiver.blocks) < MaxDepth
    /\ LET v == str(version).v
           call == [NoVersionCall EXCEPT !.op = "enter", !.version = version,
                        !.before = archiver.CURRENT_FORMAT_VERSION,
                        !.depth = Len(archiver.blocks)]
       IN  IF v \notin _FORMAT_REGISTRY
           THEN archiver' = [archiver EXCEPT
                    !.last = [call EXCEPT !.raised = "ValueError"]]
           ELSE archiver' = [archiver EXCEPT
                    !.CURRENT_FORMAT_VERSION = v,
                    !.blocks = Append(@,
                        [original_version |-> archiver.CURRENT_FORMAT_VERSION,
                         version |-> v]),
                    !.last = call]
    /\ UNCHANGED <<engine, alias, fingerprint, probe, scopes, asynchronous,
                   note, argtree>>

\* The innermost block ends, by reaching its end or by an exception raised
\* in it: the finally clause runs either way.
VersionBlockExit(how) ==
    /\ archiver.pc = "on"
    /\ archiver.blocks # <<>>
    /\ LET n == Len(archiver.blocks)
           block == archiver.blocks[n]
       IN  archiver' = [archiver EXCEPT
               !.CURRENT_FORMAT_VERSION = version_restored(block),
               !.blocks = SubSeq(@, 1, n - 1),
               !.last = [NoVersionCall EXCEPT !.op = "exit",
                            !.raised = how,
                            !.before = archiver.CURRENT_FORMAT_VERSION,
                            !.depth = n]]
    /\ UNCHANGED <<engine, alias, fingerprint, probe, scopes, asynchronous,
                   note, argtree>>

VersionNext ==
    \/ \E version \in Versions : artifact_version(version)
    \/ \E how \in {"none", "Exception"} : VersionBlockExit(how)

VersionSpec == VersionInit /\ [][VersionNext]_vars

\* ------------------------------------------------------------------ a Note
\* Note.__init__ (qiime2/core/annotate.py), run on its own.  An argument is
\* a typed value: None, a str, an int, or an os.PathLike object.

Arg(t, v) == [t |-> t, v |-> v]

NoArg == Arg("NoneType", "")

Unassigned == Arg("unassigned", "")

NoteNames == {"my-note", "foo bar"}

NoteTexts == {NoArg, Arg("str", ""), Arg("str", "my special text")}

NoteFilepaths == {NoArg, Arg("str", ""), Arg("str", "note.txt"),
                  Arg("str", "gone.txt"), Arg("int", "42"),
                  Arg("PathLike", "note.txt")}

\* os.path.exists
ExistingFiles == {"note.txt"}

\* bool(x): None and the empty str are false.
truthy(x) == x.t # "NoneType" /\ ~(x.t = "str" /\ x.v = "") /\ ~(x.t = "int" /\ x.v = "0")

\* name.replace('-', '_').isidentifier()
isidentifier(name) == name = "my-note"

\* What the file at filepath holds: text in UTF-8 of at most 10 MiB, more
\* than 10 MiB, or bytes that are not UTF-8.
NoteFileContents == {"utf8", "too_big", "not_utf8"}

\* The annotations directory a Note is written to: whether it exists, and
\* the entries of this Note under it.
AnnotationsDir(exists, entries) == [exists |-> exists, entries |-> entries]
AnnotationsDirs == {AnnotationsDir(e, {}) : e \in BOOLEAN}

NoteInit ==
    /\ EngineIdle
    /\ alias = Off /\ fingerprint = Off /\ probe = Off
    /\ scopes = Off /\ asynchronous = Off /\ archiver = Off /\ argtree = Off
    /\ \E name \in NoteNames, text \in NoteTexts, filepath \in NoteFilepaths,
          file \in NoteFileContents, before \in AnnotationsDirs :
         note = [pc |-> "validate_name", name |-> name, text |-> text,
                 filepath |-> filepath, contents |-> Unassigned,
                 _filepath |-> Unassigned, raised |-> "none",
                 file |-> file, before |-> before, annotations_dir |-> before]

\* self.validate_name(name)
NoteValidateName ==
    /\ note.pc = "validate_name"
    /\ note' = IF isidentifier(note.name)
               THEN [note EXCEPT !.pc = "check"]
               ELSE [note EXCEPT !.pc = "raised", !.raised = "ValueError:name"]
    /\ UNCHANGED <<engine, alias, fingerprint, probe, scopes, asynchronous,
                   archiver, argtree>>

\* The two checks on text and filepath.
NoteCheckInputs ==
    /\ note.pc = "check"
    /\ note' = IF truthy(note.text) /\ truthy(note.filepath)
               THEN [note EXCEPT !.pc = "raised", !.raised = "ValueError:both"]
               ELSE IF ~truthy(note.text) /\ ~truthy(note.filepath)
               THEN [note EXCEPT !.pc = "raised", !.raised = "ValueError:neither"]
               ELSE [note EXCEPT !.pc = "assign"]
    /\ UNCHANGED <<engine, alias, fingerprint, probe, scopes, asynchronous,
                   archiver, argtree>>

\* if text is not None: ... else: ...
NoteAssign ==
    /\ note.pc = "assign"
    /\ note' = IF note.text # NoArg
               THEN [note EXCEPT !.contents = note.text, !._filepath = NoArg,
                                 !.pc = "super"]
               ELSE IF note.filepath.t \notin {"str", "PathLike"}
               THEN [note EXCEPT !.pc = "raised", !.raised = "TypeError"]
               ELSE IF note.filepath.v \notin ExistingFiles
               THEN [note EXCEPT !.pc = "raised", !.raised = "ValueError:not_found"]
               ELSE [note EXCEPT !._filepath = Arg("str", note.filepath.v),
                                 !.contents = NoArg, !.pc = "super"]
    /\ UNCHANGED <<engine, alias, fingerprint, probe, scopes, asynchronous,
                   archiver, argtree>>

\* super().__init__(name)
NoteSuperInit ==
    /\ note.pc = "super"
    /\ note' = [note EXCEPT !.pc = "done"]
    /\ UNCHANGED <<engine, alias, fingerprint, probe, scopes, asynchronous,
                   archiver, argtree>>

\* Annotation._write_meta_yaml: the annotations directory is made when it
\* is not there, then the directory of this annotation, then metadata.yaml.
_write_meta_yaml(annotations_dir) ==
    AnnotationsDir(TRUE, annotations_dir.entries \cup {"id", "id/metadata.yaml"})

\* Note._write: metadata.yaml first, then the contents are read from the
\* file or encoded from the text, their size and their encoding are checked,
\* and only then is note.txt written.
NoteWrite ==
    /\ note.pc = "done"
    /\ LET written == _write_meta_yaml(note.annotations_dir)
           contents == IF truthy(note._filepath) THEN note.file ELSE "utf8"
       IN  note' = IF contents = "too_big"
                   THEN [note EXCEPT !.pc = "write_raised", !.raised = "ValueError:size",
                                     !.annotations_dir = written]
                   ELSE IF contents = "not_utf8"
                   THEN [note EXCEPT !.pc = "write_raised", !.raised = "ValueError:utf8",
                                     !.annotations_dir = written]
                   ELSE [note EXCEPT !.pc = "written",
                            !.annotations_dir =
                               AnnotationsDir(TRUE, written.entries \cup {"id/note.txt"})]
    /\ UNCHANGED <<engine, alias, fingerprint, probe, scopes, asynchronous,
                   archiver, argtree>>

NoteNext ==
    NoteValidateName \/ NoteCheckInputs \/ NoteAssign \/ NoteSuperInit \/ NoteWrite

NoteSpec == NoteInit /\ [][NoteNext]_vars

\* ------------------------------------------- the arguments of a parallel call
\* ParallelContext._callable_action_ and _dispatch_ on one call of a leaf
\* action, run on their own over the argument tree: the decision to probe,
\* _map_arg over the positional and the keyword arguments, the submission,
\* and _unmap_arg in the task once the futures have resolved.

MaxListLen == 2

\* What a Proxy holds as _future_: a future, or (once mapped) an index.
Ref(kind, id) == [kind |-> kind, id |-> id]

Node(k, future, selector, v, keys, e) ==
    [k |-> k, future |-> future, selector |-> selector, v |-> v,
     keys |-> keys, e |-> e]

\* A value that is no Proxy, list or dict.
Plain(v) == Node("plain", Ref("none", 0), 0, v, <<>>, <<>>)

\* Proxy(future, selector)
Handle(future, selector) == Node("proxy", future, selector, <<0, 0>>, <<>>, <<>>)

ListOf(e) == Node("list", Ref("none", 0), 0, <<0, 0>>, <<>>, e)

DictKeys == <<"a", "b", "c", "d">>

DictOf(e) == Node("dict", Ref("none", 0), 0, <<0, 0>>, SubSeq(DictKeys, 1, Len(e)), e)

ArgLeaves == {Plain(<<0, 0>>), Handle(Ref("future", 1), 0),
              Handle(Ref("future", 2), 1)}

ArgTrees ==
    ArgLeaves
       \cup {ListOf(e) : e \in SeqsUpTo(ArgLeaves, MaxListLen)}
       \cup {DictOf(e) : e \in SeqsUpTo(ArgLeaves, MaxListLen) \ {<<>>}}
       \cup {ListOf(<<ListOf(<<Handle(Ref("future", 1), 1)>>)>>)}

\* What a future resolves to: the Results of its action, one value per output.
Resolution(future) == [i \in 1..2 |-> Plain(<<future.id, i - 1>>)]

first_slot(futures) == 0

\* len(futures) - 1
slot_index(futures) == Len(futures) - 1

RECURSIVE _map_arg(_, _)
_map_arg(arg, futures) ==
    IF arg.k = "proxy"
    THEN LET appended == Append(futures, arg.future)
         IN  [mapped |-> Handle(Ref("slot", slot_index(appended)), arg.selector),
              futures |-> appended]
    ELSE IF arg.k \in {"list", "dict"}
    THEN LET F[i \in 0..Len(arg.e)] ==
                 IF i = 0 THEN [mapped |-> <<>>, futures |-> futures]
                 ELSE LET r == _map_arg(arg.e[i], F[i - 1].futures)
                      IN  [mapped |-> Append(F[i - 1].mapped, r.mapped),
                           futures |-> r.futures]
         IN  [mapped |-> [arg EXCEPT !.e = F[Len(arg.e)].mapped],
              futures |-> F[Len(arg.e)].futures]
    ELSE [mapped |-> arg, futures |-> futures]

\* for arg in args: mapped = _map_arg(arg, futures)
MapAll(args, futures) ==
    LET F[i \in 0..Len(args)] ==
            IF i = 0 THEN [mapped |-> <<>>, futures |-> futures]
            ELSE LET r == _map_arg(args[i], F[i - 1].futures)
                 IN  [mapped |-> Append(F[i - 1].mapped, r.mapped),
                      futures |-> r.futures]
    IN  F[Len(args)]

\* Proxy._get_element_(results): the element the selector denotes.
_get_element_(results, selector) == results[selector + 1]

first_input(inputs, ref) == inputs[1]

\* resolved_result = inputs[arg._future_]
resolved_result(inputs, ref) == inputs[ref.id + 1]

RECURSIVE _unmap_arg(_, _)
_unmap_arg(arg, inputs) ==
    IF arg.k = "proxy"
    THEN _get_element_(resolved_result(inputs, arg.future), arg.selector)
    ELSE IF arg.k \in {"list", "dict"}
    THEN [arg EXCEPT !.e = [i \in 1..Len(arg.e) |-> _unmap_arg(arg.e[i], inputs)]]
    ELSE arg

ArgInit ==
    /\ EngineIdle
    /\ alias = Off /\ fingerprint = Off /\ probe = Off
    /\ scopes = Off /\ asynchronous = Off /\ archiver = Off /\ note = Off
    /\ \E arg \in ArgTrees, kwargs \in {<<>>} \cup {<<t>> : t \in ArgTrees},
          named \in BOOLEAN :
         argtree = [pc |-> "call", named_pool |-> named, args |-> <<arg>>,
                    kwargs |-> kwargs, fingerprinted |-> FALSE,
                    futures |-> <<>>, mapped_args |-> <<>>,
                    mapped_kwargs |-> <<>>, inputs |-> <<>>,
                    run_args |-> <<>>, run_kwargs |-> <<>>]

\* ParallelContext._callable_action_: _check_cache, which computes the
\* fingerprint of the arguments, is called when there is a named pool and
\* _contains_proxies finds nothing; the probe misses.
ArgCallableAction ==
    /\ argtree.pc = "call"
    /\ argtree' = [argtree EXCEPT
          !.pc = "map_args",
          !.fingerprinted = argtree.named_pool
                 /\ ~_contains_proxies(argtree.args \o argtree.kwargs)]
    /\ UNCHANGED <<engine, alias, fingerprint, probe, scopes, asynchronous,
                   archiver, note>>

\* _dispatch_, the loop over args.
ArgMapArgs ==
    /\ argtree.pc = "map_args"
    /\ LET r == MapAll(argtree.args, <<>>)
       IN  argtree' = [argtree EXCEPT !.pc = "map_kwargs",
                                      !.mapped_args = r.mapped,
                                      !.futures = r.futures]
    /\ UNCHANGED <<engine, alias, fingerprint, probe, scopes, asynchronous,
                   archiver, note>>

\* _dispatch_, the loop over kwargs.items().
ArgMapKwargs ==
    /\ argtree.pc = "map_kwargs"
    /\ LET r == MapAll(argtree.kwargs, argtree.futures)
       IN  argtree' = [argtree EXCEPT !.pc = "submit",
                                      !.mapped_kwargs = r.mapped,
                                      !.futures = r.futures]
    /\ UNCHANGED <<engine, alias, fingerprint, probe, scopes, asynchronous,
                   archiver, note>>

\* python_app(...)(_run_parsl_action)(..., inputs=futures)
ArgSubmit ==
    /\ argtree.pc = "submit"
    /\ argtree' = [argtree EXCEPT !.pc = "pending"]
    /\ UNCHANGED <<engine, alias, fingerprint, probe, scopes, asynchronous,
                   archiver, note>>

\* The executor starts the task once every future of inputs has resolved,
\* and hands it their results in the order of the list.
ArgInputsResolved ==
    /\ argtree.pc = "pending"
    /\ argtree' = [argtree EXCEPT
          !.pc = "unmap",
          !.inputs = [i \in 1..Len(argtree.futures) |->
                         Resolution(argtree.futures[i])]]
    /\ UNCHANGED <<engine, alias, fingerprint, probe, scopes, asynchronous,
                   archiver, note>>

\* _run_parsl_action, the two loops that unmap the arguments.
ArgUnmap ==
    /\ argtree.pc = "unmap"
    /\ argtree' = [argtree EXCEPT
          !.pc = "run",
          !.run_args = [i \in 1..Len(argtree.mapped_args) |->
                           _unmap_arg(argtree.mapped_args[i], argtree.inputs)],
          !.run_kwargs = [i \in 1..Len(argtree.mapped_kwargs) |->
                           _unmap_arg(argtree.mapped_kwargs[i], argtree.inputs)]]
    /\ UNCHANGED <<engine, alias, fingerprint, probe, scopes, asynchronous,
                   archiver, note>>

ArgNext ==
    \/ ArgCallableAction \/ ArgMapArgs \/ ArgMapKwargs
    \/ ArgSubmit \/ ArgInputsResolved \/ ArgUnmap

ArgSpec == ArgInit /\ [][ArgNext]_vars

\* ================================================================ properties

\* C1: a Method invocation whose computation returned a number of values
\* other than its declared output count has failed with the cardinality
\* error and has no Results; and whenever a Method invocation has returned a
\* Results, it has exactly one slot per declared output.
MethodOutputCountChecked ==
    \A n \in DOMAIN invs :
       invs[n].act.kind = "method" =>
          /\ (invs[n].nret # -1 /\ invs[n].nret # Len(invs[n].act.outs)) =>
                (invs[n].outcome = "TypeError:count" /\ invs[n].results = <<>>)
          /\ invs[n].outcome = "results" =>
                Len(invs[n].results) = Len(invs[n].act.outs)

\* A Method with 2 declared outputs whose computation returned 1 value.
MethodShortReturnFailed ==
    \E n \in DOMAIN invs :
       /\ invs[n].act.kind = "method"
       /\ Len(invs[n].act.outs) = 2
       /\ invs[n].nret = 1
       /\ invs[n].outcome = "TypeError:count"

\* C2: a Visualizer invocation whose computation returned a non-empty value
\* has failed with the return-value violation naming that value, and nothing
\* was built from its working directory or registered in the Cache.
VisualizerReturnRefused ==
    \A n \in DOMAIN invs :
       (invs[n].act.kind = "visualizer" /\ invs[n].retval = Junk) =>
          /\ invs[n].outcome = "TypeError:viz_return"
          /\ invs[n].errval = invs[n].retval
          /\ ~Happened(n, "built")
          /\ invs[n].registered = {}
          /\ \A u \in cache.process_pool \cup cache.named_pool : u[1] # n
          /\ invs[n].results = <<>>

\* A Visualizer whose computation returned an object, after its failure.
VisualizerReturnedObject ==
    \E n \in DOMAIN invs :
       /\ invs[n].act.kind = "visualizer"
       /\ invs[n].retval = Junk
       /\ Happened(n, "tempdir")
       /\ invs[n].outcome = "TypeError:viz_return"

\* C3: when the aliasing loop has run over a returned collection of N
\* elements, the aliased collection has exactly N elements, in the order
\* returned, each over the data of the element it aliases and under the name
\* create_collection_name gives for (output name, key, index, N).
AliasedCollectionComplete ==
    alias.pc = "done" =>
       LET out == alias.results[1]
       IN  /\ Len(out) = alias.size
           /\ \A i \in 1..alias.size :
                 /\ out[i].value.data = alias.output[i].value.data
                 /\ out[i].value.name =
                       create_collection_name(alias.name, alias.output[i].key,
                                              i - 1, alias.size)

IncompleteCollectionIsMiss ==
    probe.pc # "off" =>
       \A i \in 1..probe.examined :
          LET c == probe.cached_outputs[i]
          IN  (/\ probe.outputs[i] = "C"
               /\ c # <<>>
               /\ \/ \E j, k \in 1..Len(c) : c[j].info.total # c[k].info.total
                  \/ Len(c) # c[1].info.total) =>
                 /\ probe.pc \in {"miss", "dispatched"}
                 /\ probe.cause = "incomplete"
                 /\ probe.results = NoResults
                 /\ probe.warnings = 1
                 /\ probe.pc = "miss" => ENABLED ProbeDispatch

\* A single output was loaded, then the collection behind it turned out to
\* hold two elements that disagree on the total; the action was dispatched.
IncompleteCollectionDispatched ==
    /\ probe.pc = "dispatched"
    /\ probe.outputs = <<"T", "C">>
    /\ Len(probe.loaded_outputs) = 1
    /\ Len(probe.cached_outputs[2]) = 2
    /\ probe.cached_outputs[2][1].info.total # probe.cached_outputs[2][2].info.total
    /\ probe.warnings = 1

\* C6: the Results a root-level parallel Pipeline call returns hold no
\* deferred handle, neither as an output nor as an element of a collection
\* output.
ParallelRootResultsResolved ==
    \A n \in DOMAIN invs :
       (invs[n].entry = "parallel" /\ invs[n].outcome = "results") =>
          /\ procs[1].status = "done"
          /\ procs[1].results = invs[n].results
          /\ \A i \in 1..Len(invs[n].results) :
                LET v == invs[n].results[i]
                IN  /\ v.k \in {"real", "coll"}
                    /\ \A j \in 1..Len(v.e) : v.e[j].k = "real"

\* A root-level parallel Pipeline has returned Results with a collection in
\* it, after a nested call of it was given a deferred handle of another.
ParallelRootReturnedAfterChaining ==
    \E n \in DOMAIN invs :
       /\ invs[n].entry = "parallel"
       /\ invs[n].outcome = "results"
       /\ \E i \in 1..Len(invs[n].results) :
             invs[n].results[i].k = "coll" /\ invs[n].results[i].e # <<>>
       /\ \E m \in DOMAIN invs :
             invs[m].parent = n /\ invs[m].deps # {} /\ invs[m].outcome = "results"

\* C7 (as the code has it): a Method or Visualizer dispatched in a parallel
\* scope while no parallel configuration is loaded fails with the
\* configuration error in the dispatch itself, after the executor name was
\* read from the routing table but before the executor-kind lookup, and
\* without a task being submitted.
LeafDispatchNeedsConfig ==
    \A n \in DOMAIN invs :
       (/\ invs[n].act.kind # "pipeline"
        /\ Happened(n, "mapped")
        /\ ~PARALLEL_CONFIG.loaded) =>
          /\ invs[n].outcome = "ValueError:config"
          /\ Happened(n, "routed")
          /\ ~Happened(n, "kind_lookup")
          /\ ~Happened(n, "submitted")
          /\ ~invs[n].deferred
          /\ \A t \in 2..MaxProcs : procs[t].status = "unused"

\* A Method called through a parallel scope failed for want of a
\* configuration.
LeafDispatchedWithoutConfig ==
    \E n \in DOMAIN invs :
       /\ invs[n].act.kind = "method"
       /\ invs[n].entry = "nested"
       /\ ctxs[invs[n].ctx].variant = "parallel"
       /\ invs[n].outcome = "ValueError:config"

\* C7 as stated: the failure comes before any executor lookup, the read of
\* the executor name from the routing table included.
LeafDispatchFailsBeforeAnyLookup ==
    \A n \in DOMAIN invs :
       (invs[n].act.kind # "pipeline" /\ invs[n].outcome = "ValueError:config") =>
          /\ ~Happened(n, "routed")
          /\ ~Happened(n, "kind_lookup")
          /\ ~Happened(n, "submitted")

\* C8: a call of the parallel entry point of a Method or Visualizer ends
\* with the usage error and nothing else: no scope is constructed, the Cache
\* is as it was, and no task exists.
ParallelOnlyForPipelines ==
    \A n \in DOMAIN invs :
       (invs[n].entry = "parallel" /\ invs[n].act.kind # "pipeline") =>
          /\ invs[n].outcome \in {"running", "ValueError:usage"}
          /\ invs[n].outcome = "running" => At(1, "parsl_wrapper")
          /\ invs[n].ctx = 0 /\ ctxs = <<>>
          /\ invs[n].events = <<>>
          /\ cache.indexBuilds = 0 /\ cache.lock = 0
          /\ cache.process_pool = {} /\ cache.named_pool = {}
          /\ \A t \in 2..MaxProcs : procs[t].status = "unused"

\* The parallel entry point of a Visualizer was called, with a named pool in
\* the Cache, and has failed.
ParallelVisualizerRefused ==
    \E n \in DOMAIN invs :
       /\ invs[n].entry = "parallel"
       /\ invs[n].act.kind = "visualizer"
       /\ cache.named
       /\ invs[n].outcome = "ValueError:usage"

FailureKeepsRegistrations ==
    \A n \in DOMAIN invs :
       invs[n].outcome \notin {"running", "results"} =>
          /\ invs[n].results = <<>>
          /\ invs[n].registered \subseteq cache.process_pool
          /\ cache.named => invs[n].registered \subseteq cache.named_pool

\* A Pipeline whose computation made an artifact, had a nested call return
\* its Results, and then raised.
PipelineFailedAfterRegistering ==
    \E n \in DOMAIN invs :
       /\ invs[n].act.kind = "pipeline"
       /\ invs[n].outcome = "raised"
       /\ invs[n].registered # {}
       /\ cache.named
       /\ \E m \in DOMAIN invs :
             /\ invs[m].parent = n
             /\ invs[m].outcome = "results"
             /\ invs[m].registered # {}

\* C11: over any sequence of scope constructions sharing one Cache, the index
\* of its named pool is built exactly once, and before any lookup in it.
IndexBuiltOncePerCache ==
    scopes.pc = "on" =>
       \A c \in Caches :
          /\ scopes.index_builds[c] <= 1
          /\ scopes.looked_up[c] => scopes.index_builds[c] = 1

\* C12: every cache operation is made by the thread that holds the Cache
\* lock: a step in which an invocation probes the index of the named pool, or
\* in which a pool gains a registration, is taken by the lock's holder.
CacheOperationsUnderLock ==
    [][\A p \in 1..MaxProcs :
          /\ (/\ At(p, "action")
              /\ "probed" \notin Range(invs[Top(p).inv].events)
              /\ "probed" \in Range(invs'[Top(p).inv].events)) => cache.lock = p
          /\ (At(p, "ref_save") /\ cache'.process_pool # cache.process_pool)
                => cache'.lock = p
          /\ (At(p, "ref_named") /\ cache'.named_pool # cache.named_pool)
                => cache.lock = p]_vars

PipelineContractEnforced ==
    \A n \in DOMAIN invs :
       (/\ invs[n].act.kind = "pipeline"
        /\ invs[n].nret = Len(invs[n].act.outs)
        /\ invs[n].errval.k = "junk") =>
          /\ invs[n].outcome = "TypeError:contract"
          /\ ~Happened(n, "aliased")

\* C15: constructing a Context with a parent and without an action raises
\* ValueError and leaves no scope behind; no scope that has a parent is
\* without an action.
ChildScopeNeedsAction ==
    scopes.pc = "on" =>
       /\ \A i \in 1..Len(scopes.ctxs) :
             scopes.ctxs[i].parent # 0 => scopes.ctxs[i].action_obj # "None"
       /\ (/\ scopes.last.op = "construct"
           /\ scopes.last.action_obj = "None"
           /\ scopes.last.parent # 0) =>
             /\ scopes.last.raised = "ValueError"
             /\ Len(scopes.ctxs) = scopes.last.scopes
             /\ scopes.index_builds = scopes.last.index_builds

\* Context(None, parent) was called with the scope of an entry point as the
\* parent, and raised.
ChildWithoutActionRaised ==
    /\ scopes.pc = "on"
    /\ scopes.last.op = "construct"
    /\ scopes.last.action_obj = "None"
    /\ scopes.last.parent = 1
    /\ scopes.ctxs[1].action_obj = "action"
    /\ scopes.last.raised = "ValueError"

\* C16 as stated: constructing a parentless Context without an action raises
\* and creates no scope.
RootScopeNeedsAction ==
    scopes.pc = "on" =>
       /\ \A i \in 1..Len(scopes.ctxs) : scopes.ctxs[i].action_obj # "None"
       /\ (/\ scopes.last.op = "construct"
           /\ scopes.last.action_obj = "None"
           /\ scopes.last.parent = 0) =>
             /\ scopes.last.raised = "ValueError"
             /\ Len(scopes.ctxs) = scopes.last.scopes

\* C16: constructing a parentless Context without an action is accepted: a
\* scope without action and without parent is created on the current Cache,
\* and the index of that Cache's named pool, if it has one, is built once
\* more.
RootScopeWithoutActionAccepted ==
    (/\ scopes.pc = "on"
     /\ scopes.last.op = "construct"
     /\ scopes.last.action_obj = "None"
     /\ scopes.last.parent = 0) =>
       /\ scopes.last.raised = "none"
       /\ Len(scopes.ctxs) = scopes.last.scopes + 1
       /\ scopes.ctxs[Len(scopes.ctxs)] =
             Scope("Context", "None", 0, scopes.current)
       /\ \A c \in Caches :
             scopes.index_builds[c] = scopes.last.index_builds[c] +
                (IF c = scopes.current /\ HasNamedPool(c) THEN 1 ELSE 0)

\* Context() was called where the current Cache has a named pool, after an
\* entry point had made its scope.
RootScopeWithoutActionMade ==
    /\ scopes.pc = "on"
    /\ scopes.last.op = "construct"
    /\ scopes.last.action_obj = "None"
    /\ scopes.last.parent = 0
    /\ HasNamedPool(scopes.current)
    /\ Len(scopes.ctxs) = 2

\* C17 as stated: get_action finds the action whenever the plugin and the
\* action it is given are, up to the separators "_" and "-", a plugin of the
\* registry and an action of that plugin.
LookupNormalizesBothNames ==
    (/\ scopes.pc = "on"
     /\ scopes.last.op = "get_action"
     /\ \E plugin \in Plugins :
          /\ replace(plugin, "_", "-") = replace(scopes.last.plugin, "_", "-")
          /\ \E action \in PluginActions(plugin) :
                replace(action, "_", "-") = replace(scopes.last.action, "_", "-")) =>
       scopes.last.raised = "none"

\* C17: get_action looks the plugin up by its name with "_" replaced by "-"
\* and the action by its name as given; when either is absent it raises
\* ValueError naming the plugin (as normalized) or the action, no scope is
\* created and no index is built.
LookupNormalizesPluginName ==
    scopes.pc = "on" =>
       (scopes.last.op = "get_action" =>
          LET plugin == replace(scopes.last.plugin, "_", "-")
              found  == /\ plugin \in Plugins
                        /\ scopes.last.action \in PluginActions(plugin)
          IN  /\ scopes.last.raised = "none" <=> found
              /\ ~found =>
                   /\ scopes.last.raised = "ValueError"
                   /\ scopes.last.named =
                         IF plugin \notin Plugins THEN plugin ELSE scopes.last.action
                   /\ Len(scopes.ctxs) = scopes.last.scopes
                   /\ scopes.index_builds = scopes.last.index_builds)

\* get_action was given the plugin with "_" for "-" and the action with "-"
\* for "_": the plugin was found, the action was not.
ActionNameNotNormalized ==
    /\ scopes.pc = "on"
    /\ scopes.last.op = "get_action"
    /\ scopes.last.plugin = <<"q", "_", "p">>
    /\ scopes.last.action = <<"f", "-", "g">>
    /\ scopes.last.raised = "ValueError"
    /\ scopes.last.named = <<"f", "-", "g">>

\* C18: a get_action that did not raise has added one scope, whose parent is
\* the calling scope and whose class and Cache are the calling scope's, and
\* has built no index; every scope with a parent has its parent's class and
\* Cache.
ChildScopeOfSameVariant ==
    scopes.pc = "on" =>
       /\ \A i \in 1..Len(scopes.ctxs) :
             scopes.ctxs[i].parent # 0 =>
                /\ scopes.ctxs[i].parent < i
                /\ scopes.ctxs[i].cls = scopes.ctxs[scopes.ctxs[i].parent].cls
                /\ scopes.ctxs[i].cache = scopes.ctxs[scopes.ctxs[i].parent].cache
       /\ (scopes.last.op = "get_action" /\ scopes.last.raised = "none") =>
             /\ Len(scopes.ctxs) = scopes.last.scopes + 1
             /\ scopes.ctxs[Len(scopes.ctxs)].parent = scopes.last.parent
             /\ scopes.ctxs[Len(scopes.ctxs)].action_obj = "action"
             /\ scopes.index_builds = scopes.last.index_builds

\* get_action succeeded on a ParallelContext whose Cache is no longer the
\* current one, and which has a named pool.
ParallelChildOnParentCache ==
    /\ scopes.pc = "on"
    /\ scopes.last.op = "get_action"
    /\ scopes.last.raised = "none"
    /\ scopes.ctxs[scopes.last.parent].cls = "ParallelContext"
    /\ scopes.ctxs[scopes.last.parent].cache # scopes.current
    /\ HasNamedPool(scopes.ctxs[scopes.last.parent].cache)

\* C19: an asynchronous call made while the configured backend is, in any
\* letter case, "macosx" raises EnvironmentError and creates no pool and
\* submits no task; any other call creates one pool, submits one task to
\* it, and returns the future while the task is still pending.
AsyncBackendCheckedFirst ==
    (asynchronous.pc = "on" /\ asynchronous.last.op = "dispatch") =>
       IF asynchronous.last.backend \in {"MacOSX", "macosx"}
       THEN /\ asynchronous.last.raised = "EnvironmentError"
            /\ asynchronous.last.returned = "none"
            /\ Len(asynchronous.pools) = asynchronous.last.pools
       ELSE /\ asynchronous.last.raised = "none"
            /\ asynchronous.last.returned = "pending"
            /\ Len(asynchronous.pools) = asynchronous.last.pools + 1
            /\ asynchronous.pools[Len(asynchronous.pools)].tasks = 1

\* A call returned its future, and the next call, made with the backend set
\* to "MacOSX", raised, while the first call's task was still running.
AsyncCallRefusedAfterSubmission ==
    /\ asynchronous.pc = "on"
    /\ asynchronous.last.op = "dispatch"
    /\ asynchronous.last.backend = "MacOSX"
    /\ asynchronous.last.raised = "EnvironmentError"
    /\ Len(asynchronous.pools) = 1
    /\ asynchronous.pools[1].task = "running"

\* C20: whatever asynchronous calls an action has had, its subprocess-backed
\* scope has at most one task that has not completed, and no worker has gone
\* away before its task completed.
OneOutstandingTaskPerScope ==
    asynchronous.pc = "on" =>
       /\ Cardinality({k \in 1..Len(asynchronous.pools) :
                          /\ asynchronous.pools[k].scope = asynchronous.scope
                          /\ asynchronous.pools[k].task \in {"pending", "running"}}) <= 1
       /\ \A k \in 1..Len(asynchronous.pools) :
             asynchronous.pools[k].worker = "exited" =>
                asynchronous.pools[k].task \in {"done", "raised"}

\* C21: the Results of a Visualizer hold, as the visualization, the handle
\* that the process pool gave back when add_reference saved the value built
\* from the directory: a handle of the pool, on a value this invocation
\* registered, not the value that was passed in.
VisualizerReturnsPoolHandle ==
    \A n \in DOMAIN invs :
       (invs[n].act.kind = "visualizer" /\ invs[n].outcome = "results"
            /\ ~Happened(n, "hit")) =>
          /\ Len(invs[n].results) = 1
          /\ invs[n].results[1].k = "real"
          /\ invs[n].results[1].h = "pool"
          /\ invs[n].results[1].u \in invs[n].registered
          /\ invs[n].results[1].u[1] = n

\* A Visualizer called from a Pipeline's computation returned its
\* visualization, registered in the process pool and the named pool.
NestedVisualizerReturned ==
    \E n \in DOMAIN invs :
       /\ invs[n].act.kind = "visualizer"
       /\ invs[n].parent # 0
       /\ invs[n].outcome = "results"
       /\ Happened(n, "built")
       /\ invs[n].results[1].u \in cache.process_pool \cap cache.named_pool

\* C22: artifact_version with a version that is not supported raises
\* ValueError and changes nothing; with a supported one the current version
\* is that version (as a string) inside the block; and at all times the
\* current version is the version of the innermost block that is open, or,
\* with no block open, the version there was before any block: leaving a
\* block, normally or by an exception, restores what was current before it.
ArchiveVersionScoped ==
    archiver.pc = "on" =>
       /\ archiver.CURRENT_FORMAT_VERSION =
             IF archiver.blocks = <<>> THEN archiver.initial
             ELSE archiver.blocks[Len(archiver.blocks)].version
       /\ archiver.last.op = "enter" =>
             IF archiver.last.version.v \in {"4", "5", "7.0"}
             THEN /\ archiver.last.raised = "none"
                  /\ Len(archiver.blocks) = archiver.last.depth + 1
                  /\ archiver.CURRENT_FORMAT_VERSION = archiver.last.version.v
             ELSE /\ archiver.last.raised = "ValueError"
                  /\ Len(archiver.blocks) = archiver.last.depth
                  /\ archiver.CURRENT_FORMAT_VERSION = archiver.last.before
       /\ archiver.last.op = "exit" =>
             Len(archiver.blocks) = archiver.last.depth - 1

\* Inside artifact_version(4), a block of version 5 was entered and then
\* left by an exception: the current version is "4" again.
InnerBlockLeftByException ==
    /\ archiver.pc = "on"
    /\ archiver.last.op = "exit"
    /\ archiver.last.raised = "Exception"
    /\ archiver.last.before = "5"
    /\ Len(archiver.blocks) = 1
    /\ archiver.blocks[1].version = "4"
    /\ archiver.blocks[1].original_version = "7.0"

\* C23: a Note is constructed only when exactly one of text and filepath was
\* given (a value that is not None and not empty), and then exactly one of
\* its contents and its filepath is set, from the argument that was given.
NoteFromExactlyOneInput ==
    note.pc = "done" =>
       /\ truthy(note.text) # truthy(note.filepath)
       /\ (note.contents # NoArg) # (note._filepath # NoArg)
       /\ truthy(note.text) => note.contents = note.text
       /\ truthy(note.filepath) => note._filepath.v = note.filepath.v

\* C24: in a parallel scope, an invocation one of whose arguments is a
\* deferred handle has not probed the cache: it went from the call straight
\* to the dispatch, where its handles were mapped.
ProxyArgumentSkipsProbe ==
    \A n \in DOMAIN invs :
       (/\ invs[n].ctx # 0
        /\ ctxs[invs[n].ctx].variant = "parallel"
        /\ invs[n].deps # {}) =>
          /\ ~Happened(n, "probed")
          /\ ~Happened(n, "hit")
          /\ invs[n].events[1] = "mapped"

\* With a named pool, a call made in a parallel Pipeline was given the
\* deferred result of an earlier call, and was submitted as a task.
ProxyArgumentDispatched ==
    \E n \in DOMAIN invs :
       /\ cache.named
       /\ invs[n].parent # 0
       /\ invs[n].deps # {}
       /\ Happened(n, "submitted")

\* The deferred handles of an argument tree, in the order a walk meets them.
RECURSIVE HandlesOf(_)
HandlesOf(tree) ==
    IF tree.k = "proxy" THEN <<tree>>
    ELSE LET F[i \in 0..Len(tree.e)] ==
                 IF i = 0 THEN <<>> ELSE F[i - 1] \o HandlesOf(tree.e[i])
         IN  F[Len(tree.e)]

HandlesOfAll(trees) ==
    LET F[i \in 0..Len(trees)] ==
            IF i = 0 THEN <<>> ELSE F[i - 1] \o HandlesOf(trees[i])
    IN  F[Len(trees)]

\* An argument tree with every deferred handle blanked: its shape, its keys
\* and its plain values.
RECURSIVE ShapeOf(_)
ShapeOf(tree) ==
    IF tree.k = "proxy" THEN Handle(Ref("none", 0), 0)
    ELSE [tree EXCEPT !.e = [i \in 1..Len(tree.e) |-> ShapeOf(tree.e[i])]]

\* An argument tree with every deferred handle replaced by the element its
\* selector picks from what its own future resolves to.
RECURSIVE ResolvedTree(_)
ResolvedTree(tree) ==
    IF tree.k = "proxy" THEN Resolution(tree.future)[tree.selector + 1]
    ELSE [tree EXCEPT !.e = [i \in 1..Len(tree.e) |-> ResolvedTree(tree.e[i])]]

\* C25: whenever the fingerprint of a call's arguments is computed for a
\* cache probe, no argument holds a deferred handle at any depth.
FingerprintFreeOfHandles ==
    (argtree.pc # "off" /\ argtree.fingerprinted) =>
       HandlesOfAll(argtree.args \o argtree.kwargs) = <<>>

\* C26: once the arguments of a leaf call are mapped, and so before the task
\* is submitted, the mapped trees have the shape of the arguments, every
\* handle in them holds a slot index within the side list and the selector
\* of the handle it replaces, the side list holds at that index the future
\* of that handle, it has one entry per handle, and no mapped handle holds a
\* future.
MappedArgumentsIndexSideList ==
    argtree.pc \in {"submit", "pending", "unmap", "run"} =>
       LET original == HandlesOfAll(argtree.args \o argtree.kwargs)
           mapped == HandlesOfAll(argtree.mapped_args \o argtree.mapped_kwargs)
       IN  /\ Len(mapped) = Len(original)
           /\ Len(argtree.futures) = Len(original)
           /\ \A i \in 1..Len(mapped) :
                 /\ mapped[i].future.kind = "slot"
                 /\ mapped[i].future.id \in 0..(Len(argtree.futures) - 1)
                 /\ argtree.futures[mapped[i].future.id + 1] = original[i].future
                 /\ mapped[i].selector = original[i].selector
           /\ \A i \in 1..Len(argtree.args) :
                 ShapeOf(argtree.mapped_args[i]) = ShapeOf(argtree.args[i])
           /\ \A i \in 1..Len(argtree.kwargs) :
                 ShapeOf(argtree.mapped_kwargs[i]) = ShapeOf(argtree.kwargs[i])

\* A call about to be submitted whose positional argument is a list of two
\* handles on different futures and whose keyword argument is a dict with a
\* handle: three slots.
ThreeHandlesMapped ==
    /\ argtree.pc = "submit"
    /\ argtree.args[1].k = "list"
    /\ Len(argtree.args[1].e) = 2
    /\ argtree.args[1].e[1].k = "proxy" /\ argtree.args[1].e[2].k = "proxy"
    /\ argtree.args[1].e[1].future # argtree.args[1].e[2].future
    /\ Len(argtree.kwargs) = 1
    /\ argtree.kwargs[1].k = "dict"
    /\ argtree.kwargs[1].e[1].k = "proxy"
    /\ Len(argtree.futures) = 3

\* C27: what the task runs the action with is the arguments of the call
\* with every deferred handle replaced by the element its selector picks
\* from its own resolved future, the same shape and keys, and every other
\* value unchanged.
UnmappingInvertsMapping ==
    argtree.pc = "run" =>
       /\ argtree.run_args =
             [i \in 1..Len(argtree.args) |-> ResolvedTree(argtree.args[i])]
       /\ argtree.run_kwargs =
             [i \in 1..Len(argtree.kwargs) |-> ResolvedTree(argtree.kwargs[i])]

\* The action was run with a dict whose second value came from output 1 of
\* future 2 and whose first value is the plain value it was called with, and
\* with a keyword argument from output 0 of future 1.
MixedDictUnmapped ==
    /\ argtree.pc = "run"
    /\ argtree.args[1].k = "dict"
    /\ argtree.args[1].e[1].k = "plain"
    /\ argtree.run_args[1].keys = <<"a", "b">>
    /\ argtree.run_args[1].e[1] = argtree.args[1].e[1]
    /\ argtree.run_args[1].e[2] = Plain(<<2, 1>>)
    /\ argtree.run_kwargs = <<Plain(<<1, 0>>)>>

\* C28: in a parallel scope a Pipeline is never handed to the executor: no
\* task is its, it is run by the thread that dispatched it and what it
\* returns is not deferred; a Method or Visualizer is never run by the
\* dispatching thread: whatever it has done beyond the dispatch was done in
\* the one task that is its, and its dispatch returned deferred results.
PipelinesInlineLeavesDeferred ==
    \A n \in DOMAIN invs :
       (invs[n].ctx # 0 /\ ctxs[invs[n].ctx].variant = "parallel") =>
          LET tasks == {t \in 2..MaxProcs : procs[t].inv = n}
              ran == \E e \in {"types", "called", "built", "registered"} :
                         Happened(n, e)
          IN  IF invs[n].act.kind = "pipeline"
              THEN /\ tasks = {}
                   /\ ~Happened(n, "submitted")
                   /\ ~invs[n].deferred
                   /\ (ran /\ ~Happened(n, "hit")) => Happened(n, "inline")
              ELSE /\ ~Happened(n, "inline")
                   /\ Cardinality(tasks) <= 1
                   /\ Happened(n, "submitted") <=> Cardinality(tasks) = 1
                   /\ Happened(n, "submitted") <=> invs[n].deferred
                   /\ ran => Happened(n, "submitted")
                   /\ \A p \in 1..MaxProcs :
                         (/\ Running(p)
                          /\ \E i \in 1..Len(procs[p].stack) :
                                /\ procs[p].stack[i].inv = n
                                /\ procs[p].stack[i].pc \notin {"action", "pdispatch"})
                            => p \in tasks

\* A parallel Pipeline ran a nested Pipeline inline to its Results, and a
\* Method called from the nested one was submitted and has run in its task.
InlinePipelineAndDeferredMethod ==
    \E n, m \in DOMAIN invs :
       /\ invs[n].act.kind = "pipeline" /\ invs[n].parent # 0
       /\ Happened(n, "inline") /\ invs[n].outcome = "results"
       /\ invs[m].act.kind = "method" /\ invs[m].parent = n
       /\ Happened(m, "submitted") /\ Happened(m, "called")
       /\ \E t \in 2..MaxProcs : procs[t].inv = m /\ procs[t].status = "done"

HitRebuiltFromPoolOnly ==
    /\ probe.pc # "hit" => probe.results = NoResults
    /\ probe.pc = "hit" =>
          /\ Len(probe.results) = Len(probe.outputs)
          /\ \A i \in 1..Len(probe.outputs) :
                IF probe.outputs[i] = "C"
                  THEN \A k \in 1..Len(probe.results[i]) :
                          /\ probe.results[i][k].value \in probe.pool
                          /\ probe.results[i][k].value[1] = i
                          /\ \E j \in 1..Len(probe.cached_outputs[i]) :
                                probe.cached_outputs[i][j].ref =
                                   probe.results[i][k].value
                  ELSE /\ probe.results[i] = probe.cached_outputs[i]
                       /\ probe.results[i] = <<i, 0>>
                       /\ probe.results[i] \in probe.pool
          /\ ~ENABLED ProbeNext

\* A hit on an action of two outputs, a Collection of two recorded elements
\* first, all loaded from the pool.
TwoOutputHitLoaded ==
    /\ probe.pc = "hit"
    /\ probe.outputs = <<"C", "T">>
    /\ Len(probe.results) = 2
    /\ Len(probe.results[1]) = 2

\* C31 as stated: an invocation that has probed the index had its inputs
\* validated by the Signature before the probe, so an invocation answered
\* from the cache has validated inputs.
ValidationBeforeProbe ==
    \A n \in DOMAIN invs :
       Happened(n, "probed") =>
          \E i, j \in 1..Len(invs[n].events) :
             /\ i < j
             /\ invs[n].events[i] = "types"
             /\ invs[n].events[j] = "probed"

\* C32: a collection the probe has reloaded, recorded under distinct item
\* names, holds exactly the declared total of elements: every recorded
\* element once, under its recorded item name and with the artifact of its
\* recorded reference, in ascending order of the recorded positions,
\* whatever the order of the records in the index.
ReloadedCollectionCompleteAndOrdered ==
    probe.pc # "off" =>
       \A i \in 1..Len(probe.loaded_outputs) :
          LET c == probe.cached_outputs[i]
              loaded == probe.loaded_outputs[i]
              rec(k) == CHOOSE j \in 1..Len(c) : c[j].info.item_name = loaded[k].key
          IN  (/\ probe.outputs[i] = "C"
               /\ \A j, k \in 1..Len(c) :
                     c[j].info.item_name = c[k].info.item_name => j = k) =>
                 /\ Len(loaded) = c[1].info.total
                 /\ \A j \in 1..Len(c) :
                       \E k \in 1..Len(loaded) :
                          /\ loaded[k].key = c[j].info.item_name
                          /\ loaded[k].value = c[j].ref
                 /\ \A k, l \in 1..Len(loaded) :
                       k < l => c[rec(k)].info.idx <= c[rec(l)].info.idx

\* A hit that reloaded a collection of two elements the index stored with
\* the element of position 1 before the element of position 0.
CollectionStoredBackwardsReloaded ==
    /\ probe.pc = "hit"
    /\ probe.outputs = <<"C">>
    /\ Len(probe.cached_outputs[1]) = 2
    /\ probe.cached_outputs[1][1].info.idx = 1
    /\ probe.cached_outputs[1][2].info.idx = 0
    /\ probe.cached_outputs[1][1].info.item_name # probe.cached_outputs[1][2].info.item_name
    /\ Len(probe.results[1]) = 2

\* C33 as stated: a probe that has examined a collection recorded with zero
\* elements goes on to a hit or to a miss and the dispatch of the action;
\* the invocation never fails on it.
EmptyRecordedCollectionHasOutcome ==
    probe.pc # "off" =>
       \A i \in 1..probe.examined :
          (probe.outputs[i] = "C" /\ probe.cached_outputs[i] = <<>>) =>
             probe.pc \in {"load", "hit", "miss", "dispatched"}

\* C34: a Pipeline running in a scope that has a parent, in the step that
\* takes what its computation returned on to aliasing, hands on the very
\* objects the computation held: a deferred handle among them is still that
\* handle, whether or not its future has finished.  (Resolution in a
\* parentless scope is C6.)
NestedPipelineKeepsHandles ==
    [][\A p \in 1..MaxProcs :
          (/\ At(p, "p_body")
           /\ ctxs[Top(p).ctx].parent # 0
           /\ Len(procs'[p].stack) = Len(procs[p].stack)
           /\ Top(p)'.pc = "p_alias") =>
             \A i \in 1..Len(Top(p)'.ret) :
                LET v == Top(p)'.ret[i]
                IN  IF v.k = "coll"
                      THEN \A j \in 1..Len(v.e) : v.e[j] \in Range(Top(p).held)
                      ELSE v \in Range(Top(p).held)]_vars

\* A Pipeline in a scope with a parent has gone on to aliasing with a
\* deferred handle it returned while the handle's task has not finished.
NestedPipelinePassedPendingHandle ==
    \E p \in 1..MaxProcs :
       /\ At(p, "p_alias")
       /\ ctxs[Top(p).ctx].parent # 0
       /\ \E i \in 1..Len(Top(p).ret) :
             /\ Top(p).ret[i].k = "proxy"
             /\ procs[Future(Top(p).ret[i])].status \notin {"done", "failed"}

RECURSIVE RootOfScope(_)
RootOfScope(i) ==
    IF scopes.ctxs[i].parent = 0 THEN i ELSE RootOfScope(scopes.ctxs[i].parent)

\* C35: every scope has the Cache of the root of its tree, and every
\* ParallelContext has the root's routing table and the root's label -> kind
\* table, whatever Cache is current and whatever configuration is loaded
\* when the scope is made.
TreeSharesCacheAndTables ==
    scopes.pc = "on" =>
       \A i \in 1..Len(scopes.ctxs) :
          LET s == scopes.ctxs[i]
              r == scopes.ctxs[RootOfScope(i)]
          IN  /\ s.cache = r.cache
              /\ s.cls = r.cls
              /\ s.cls = "ParallelContext" =>
                    /\ s.action_executor_mapping = r.action_executor_mapping
                    /\ s.executor_name_type_mapping = r.executor_name_type_mapping

\* A ParallelContext with a child and a grandchild, the grandchild made by
\* get_action after another Cache became current and another configuration
\* was loaded.
GrandchildAfterCacheAndConfigChanged ==
    /\ scopes.pc = "on"
    /\ scopes.last.op = "get_action" /\ scopes.last.raised = "none"
    /\ Len(scopes.ctxs) = 3
    /\ scopes.ctxs[1].cls = "ParallelContext"
    /\ scopes.ctxs[2].parent = 1 /\ scopes.ctxs[3].parent = 2
    /\ scopes.ctxs[1].cache # scopes.current
    /\ scopes.ctxs[1].executor_name_type_mapping # scopes.config

\* C36 as stated: a leaf dispatch that passed the guard on PARALLEL_CONFIG
\* found the kind of its executor in the scope's label -> kind table.
GuardedDispatchFindsExecutorKind ==
    (/\ scopes.pc = "on"
     /\ scopes.last.op = "dispatch"
     /\ scopes.last.raised # "ValueError") => scopes.last.raised = "none"

\* C37: a Visualizer invocation has no working directory before its executor
\* enters the `with` block; its own directory exists from then on, while the
\* computation runs and while the visualization is built and registered;
\* and once the invocation has ended, with Results or with a failure, its
\* directory does not exist.
VisualizerDirectoryScoped ==
    /\ \A p \in 1..MaxProcs : \A k \in 1..Len(procs[p].stack) :
          LET f == procs[p].stack[k]
          IN  f.act.kind = "visualizer" =>
                 (f.inv \in tempdirs <=>
                     f.pc \in {"v_call", "v_build", "ref_save", "ref_named", "v_exit"})
    /\ \A n \in DOMAIN invs :
          /\ invs[n].outcome # "running" => n \notin tempdirs
          /\ n \in tempdirs => invs[n].act.kind = "visualizer"
          /\ (Happened(n, "called") \/ Happened(n, "built") \/ Happened(n, "registered"))
                /\ invs[n].act.kind = "visualizer" => Happened(n, "tempdir")

\* Of two Visualizer invocations that each got a directory, one has ended
\* with its visualization registered and the other has failed, and neither
\* directory exists.
BothVisualizerDirectoriesGone ==
    \E n, m \in DOMAIN invs :
       /\ invs[n].act.kind = "visualizer" /\ invs[m].act.kind = "visualizer"
       /\ Happened(n, "tempdir") /\ Happened(m, "tempdir")
       /\ invs[n].outcome = "results" /\ Happened(n, "registered")
       /\ invs[m].outcome \notin {"running", "results"}
       /\ n \notin tempdirs /\ m \notin tempdirs

\* C38 as stated: an artifact a Pipeline computation holds from
\* ctx.make_artifact is registered in the process pool, and in the named
\* pool when there is one, and is the object the process pool holds: the
\* handle process_pool.save returned.
MakeArtifactReturnsPoolHandle ==
    \A p \in 1..MaxProcs : \A k \in 1..Len(procs[p].stack) :
       LET f == procs[p].stack[k]
       IN  \A i \in 1..Len(f.held) :
              (f.held[i].k = "real" /\ f.held[i].u[1] = f.inv) =>
                 /\ f.held[i].u \in cache.process_pool
                 /\ cache.named => f.held[i].u \in cache.named_pool
                 /\ f.held[i].h = "pool"

\* C39 as stated: when Note._write has raised on the size or the encoding of
\* the contents, the annotations directory is as it was before the write:
\* it exists only if it did, and holds no directory, metadata.yaml or
\* note.txt of this Note.
FailedNoteWriteLeavesNoTrace ==
    (note.pc = "write_raised") => note.annotations_dir = note.before

====
